---- MODULE Spec2Model ----
(***************************************************************************)
(* The metric index of the query planner: MetricSemantics                  *)
(* (metricflow/model/semantics/metric_semantics.py).                       *)
(*                                                                         *)
(* The index is a dict from MetricReference to Metric, filled by           *)
(* add_metric and read by the lookups and the metric expander.  The        *)
(* linkable-spec resolver and the dataflow plan builder that read the      *)
(* index follow, and the lookups and properties of DataSource              *)
(* (dbt_semantic_interfaces/objects/data_source.py).                       *)
(***************************************************************************)
EXTENDS Integers, Sequences, FiniteSets, TLC

(***************************************************************************)
(* Bounds of the model.                                                    *)
(***************************************************************************)
\* longest manifest (user_configured_model.metrics) handed to the constructor
MaxManifest == 2
\* longest sequence of references handed to get_metrics and to
\* contains_cumulative_or_time_offset_metric
MaxRefs == 2
\* most input metrics of a derived metric
MaxInputs == 2

(***************************************************************************)
(* Values.                                                                 *)
(***************************************************************************)
\* Python's None
None == "None"

MetricNames == {"m1", "m2", "m3"}
MeasureNames == {"x", "y"}

\* MetricType
SIMPLE == "SIMPLE"
RATIO == "RATIO"
CUMULATIVE == "CUMULATIVE"
DERIVED == "DERIVED"

\* the error classes of metricflow.errors.errors
MetricNotFoundError == "MetricNotFoundError"
DuplicateMetricError == "DuplicateMetricError"
NonExistentMeasureError == "NonExistentMeasureError"
\* "the call returned"
NoError == "NoError"

\* References are value-typed: a reference is its kind and its element name.
MetricReference(element_name) == [kind |-> "metric", element_name |-> element_name]
MeasureReference(element_name) == [kind |-> "measure", element_name |-> element_name]

MetricRefs == {MetricReference(n) : n \in MetricNames}

\* MetricInputMeasure: a measure named by a metric, with its own filter and alias
MetricInputMeasure(name, filter, alias) ==
    [name |-> name, filter |-> filter, alias |-> alias]

\* MetricInput: a metric named by a derived metric
MetricInput(name, filter, alias, offset_window, offset_to_grain) ==
    [name |-> name, filter |-> filter, alias |-> alias,
     offset_window |-> offset_window, offset_to_grain |-> offset_to_grain]

\* Metric: name, type, filter and the inputs its type_params hold
Metric(name, type, filter, input_measures, input_metrics) ==
    [name |-> name, type |-> type, filter |-> filter,
     input_measures |-> input_measures, input_metrics |-> input_metrics]

\* MetricInputMeasure.measure_reference
measure_reference(input_measure) == MeasureReference(input_measure.name)

\* MetricInput.as_reference
as_reference(input_metric) == MetricReference(input_metric.name)

\* Metric.measure_references: one reference per input measure, in order
measure_references_of(metric) ==
    [i \in DOMAIN metric.input_measures |-> measure_reference(metric.input_measures[i])]

(***************************************************************************)
(* State.                                                                  *)
(***************************************************************************)
VARIABLES
    \* self._metrics: the dict, as the sequence of its <<key, value>> items in
    \* insertion order
    _metrics,
    \* self._semantic_model_semantics.measure_references
    measure_references,
    \* "ready": the constructor returned; "failed": it raised (no instance)
    phase,
    \* the last call: [op, args, raised, about, value]; about is what the
    \* message of the raised error names
    result,
    \* the plan builder's insertion counter: the number of plan nodes created
    \* so far, from which node identifiers are drawn
    node_id_counter,
    \* the DataSource object whose lookups and properties are called (None
    \* where the metric index alone is exercised)
    data_source

vars == <<_metrics, measure_references, phase, result, node_id_counter, data_source>>

(***************************************************************************)
(* The dict.                                                               *)
(***************************************************************************)
\* key in d
DictHas(d, key) == \E i \in DOMAIN d : d[i][1] = key

\* d[key], for a key in d
DictGet(d, key) == d[CHOOSE i \in DOMAIN d : d[i][1] = key][2]

\* d[key] = value: a present key keeps its place, a new one goes last
DictSet(d, key, value) ==
    IF DictHas(d, key)
    THEN [i \in DOMAIN d |-> IF d[i][1] = key THEN <<key, value>> ELSE d[i]]
    ELSE Append(d, <<key, value>>)

\* list(d.keys())
DictKeys(d) == [i \in DOMAIN d |-> d[i][1]]

Range(s) == {s[i] : i \in DOMAIN s}

(***************************************************************************)
(* add_metric and the constructor.                                         *)
(***************************************************************************)
\* the position of the first reference of refs that measure_refs lacks, 0 if none
FirstMissing(refs, measure_refs) ==
    IF \A i \in DOMAIN refs : refs[i] \in measure_refs
    THEN 0
    ELSE CHOOSE i \in DOMAIN refs :
            /\ refs[i] \notin measure_refs
            /\ \A j \in 1..(i - 1) : refs[j] \in measure_refs

\* add_metric without the DuplicateMetricError check: a registered name is overwritten
add_metric_overwrites(d, measure_refs, metric) ==
    LET metric_reference == MetricReference(metric.name)
        refs == measure_references_of(metric)
        missing == FirstMissing(refs, measure_refs) IN
    IF missing # 0
    THEN [metrics |-> d, raised |-> NonExistentMeasureError,
          about |-> <<metric.name, refs[missing]>>]
    ELSE [metrics |-> DictSet(d, metric_reference, metric), raised |-> NoError,
          about |-> None]

\* add_metric that registers the metric before it validates the measures
add_metric_registers_first(d, measure_refs, metric) ==
    LET metric_reference == MetricReference(metric.name)
        refs == measure_references_of(metric)
        missing == FirstMissing(refs, measure_refs) IN
    IF DictHas(d, metric_reference)
    THEN [metrics |-> d, raised |-> DuplicateMetricError, about |-> metric.name]
    ELSE IF missing # 0
    THEN [metrics |-> DictSet(d, metric_reference, metric),
          raised |-> NonExistentMeasureError, about |-> <<metric.name, refs[missing]>>]
    ELSE [metrics |-> DictSet(d, metric_reference, metric), raised |-> NoError,
          about |-> None]

\* add_metric that validates only the first measure reference of the metric
add_metric_checks_first_measure(d, measure_refs, metric) ==
    LET metric_reference == MetricReference(metric.name)
        refs == measure_references_of(metric) IN
    IF DictHas(d, metric_reference)
    THEN [metrics |-> d, raised |-> DuplicateMetricError, about |-> metric.name]
    ELSE IF Len(refs) > 0 /\ refs[1] \notin measure_refs
    THEN [metrics |-> d, raised |-> NonExistentMeasureError,
          about |-> <<metric.name, refs[1]>>]
    ELSE [metrics |-> DictSet(d, metric_reference, metric), raised |-> NoError,
          about |-> None]

\* add_metric that validates the measures before it looks for a duplicate
add_metric_validates_measures_first(d, measure_refs, metric) ==
    LET metric_reference == MetricReference(metric.name)
        refs == measure_references_of(metric)
        missing == FirstMissing(refs, measure_refs) IN
    IF missing # 0
    THEN [metrics |-> d, raised |-> NonExistentMeasureError,
          about |-> <<metric.name, refs[missing]>>]
    ELSE IF DictHas(d, metric_reference)
    THEN [metrics |-> d, raised |-> DuplicateMetricError, about |-> metric.name]
    ELSE [metrics |-> DictSet(d, metric_reference, metric), raised |-> NoError,
          about |-> None]

\* add_metric(metric) on the dict d: the dict after the call, what was raised
\* and what the message of the error names
add_metric(d, measure_refs, metric) ==
    LET metric_reference == MetricReference(metric.name)
        refs == measure_references_of(metric)
        missing == FirstMissing(refs, measure_refs) IN
    IF DictHas(d, metric_reference)
    THEN [metrics |-> d, raised |-> DuplicateMetricError, about |-> metric.name]
    ELSE IF missing # 0
    THEN [metrics |-> d, raised |-> NonExistentMeasureError,
          about |-> <<metric.name, refs[missing]>>]
    ELSE [metrics |-> DictSet(d, metric_reference, metric), raised |-> NoError,
          about |-> None]

\* __init__: add_metric on every metric of the manifest, in order; the first
\* raise ends the constructor
RECURSIVE construct(_, _, _, _)
construct(d, measure_refs, manifest, i) ==
    IF i > Len(manifest)
    THEN [metrics |-> d, raised |-> NoError, about |-> None]
    ELSE LET r == add_metric(d, measure_refs, manifest[i]) IN
         IF r.raised # NoError
         THEN r
         ELSE construct(r.metrics, measure_refs, manifest, i + 1)

(***************************************************************************)
(* Lookups.                                                                *)
(***************************************************************************)
\* get_metric(metric_reference)
get_metric(d, metric_reference) ==
    IF ~DictHas(d, metric_reference)
    THEN [raised |-> MetricNotFoundError, about |-> metric_reference, value |-> None]
    ELSE [raised |-> NoError, about |-> None, value |-> DictGet(d, metric_reference)]

\* get_metrics that passes over an unregistered reference instead of raising
RECURSIVE get_metrics_skipping(_, _, _, _)
get_metrics_skipping(d, metric_references, i, res) ==
    IF i > Len(metric_references)
    THEN [raised |-> NoError, about |-> None, value |-> res]
    ELSE IF ~DictHas(d, metric_references[i])
    THEN get_metrics_skipping(d, metric_references, i + 1, res)
    ELSE get_metrics_skipping(d, metric_references, i + 1,
                              Append(res, DictGet(d, metric_references[i])))

\* get_metrics(metric_references): the outcome of the loop from position i on,
\* res holding the metrics of the positions before i
RECURSIVE get_metrics_from(_, _, _, _)
get_metrics_from(d, metric_references, i, res) ==
    IF i > Len(metric_references)
    THEN [raised |-> NoError, about |-> None, value |-> res]
    ELSE IF ~DictHas(d, metric_references[i])
    THEN [raised |-> MetricNotFoundError, about |-> metric_references[i], value |-> None]
    ELSE get_metrics_from(d, metric_references, i + 1,
                          Append(res, DictGet(d, metric_references[i])))

get_metrics(d, metric_references) == get_metrics_from(d, metric_references, 1, <<>>)

\* the metric_references property
metric_references(d) == DictKeys(d)

(***************************************************************************)
(* The metric expander.                                                    *)
(***************************************************************************)
\* A WhereFilterSpec is the sequence of the where filters it is the AND of.
\* WhereFilterSpec.create_from_where_filter(where_filter, resolver)
create_from_where_filter(where_filter) == <<where_filter>>

\* WhereFilterSpec.combine: self AND other, self first
combine(self, other) == self \o other

\* constraint=None on a spec: the AND of no filter
NoConstraint == <<>>

\* non_additive_dimension_specs_by_measure of the semantic model: measure y
\* is non-additive over the dimension ds
non_additive_dimension_specs_by_measure == <<<<MeasureReference("y"), "ds">>>>

\* dict.get(key): None for a key the dict lacks
DictGetOrNone(d, key) == IF DictHas(d, key) THEN DictGet(d, key) ELSE None

MeasureSpec(element_name, non_additive_dimension_spec) ==
    [element_name |-> element_name,
     non_additive_dimension_spec |-> non_additive_dimension_spec]

MetricInputMeasureSpec(measure_spec, constraint, alias) ==
    [measure_spec |-> measure_spec, constraint |-> constraint, alias |-> alias]

MetricSpec(element_name, constraint, alias, offset_window, offset_to_grain) ==
    [element_name |-> element_name, constraint |-> constraint, alias |-> alias,
     offset_window |-> offset_window, offset_to_grain |-> offset_to_grain]

\* an input-measure spec that loses the filter of its input measure
InputMeasureSpecUnfiltered(metric, input_measure) ==
    MetricInputMeasureSpec(
        MeasureSpec(input_measure.name,
                    DictGetOrNone(non_additive_dimension_specs_by_measure,
                                  measure_reference(input_measure))),
        NoConstraint,
        input_measure.alias)

\* an input-measure spec aliased by the name of its measure
InputMeasureSpecAliasedByName(metric, input_measure) ==
    MetricInputMeasureSpec(
        MeasureSpec(input_measure.name,
                    DictGetOrNone(non_additive_dimension_specs_by_measure,
                                  measure_reference(input_measure))),
        IF input_measure.filter # None
        THEN create_from_where_filter(input_measure.filter)
        ELSE NoConstraint,
        input_measure.name)

\* the body of the loop of measures_for_metric: the spec of one input measure
\* of the metric
InputMeasureSpec(metric, input_measure) ==
    MetricInputMeasureSpec(
        MeasureSpec(input_measure.name,
                    DictGetOrNone(non_additive_dimension_specs_by_measure,
                                  measure_reference(input_measure))),
        IF input_measure.filter # None
        THEN create_from_where_filter(input_measure.filter)
        ELSE NoConstraint,
        input_measure.alias)

\* measures_for_metric(metric_reference, resolver)
measures_for_metric(d, metric_reference) ==
    LET g == get_metric(d, metric_reference) IN
    IF g.raised # NoError
    THEN g
    ELSE [raised |-> NoError, about |-> None,
          value |-> [i \in DOMAIN g.value.input_measures |->
                        InputMeasureSpec(g.value, g.value.input_measures[i])]]

\* the offset test that looks at offset_window alone
HasOffsetWindow(input_metric) == input_metric.offset_window # None

\* only offset_to_grain counts
HasOffsetToGrain(input_metric) == input_metric.offset_to_grain # None

\* input_metric.offset_window or input_metric.offset_to_grain
HasOffset(input_metric) ==
    input_metric.offset_window # None \/ input_metric.offset_to_grain # None

\* the test of the loop of contains_cumulative_or_time_offset_metric on one
\* requested metric
IsCumulativeOrHasOffsetInput(metric) ==
    \/ metric.type = CUMULATIVE
    \/ /\ metric.type = DERIVED
       /\ \E k \in DOMAIN metric.input_metrics : HasOffset(metric.input_metrics[k])

\* contains_cumulative_or_time_offset_metric(metric_references): the outcome of
\* the loop from position i on
RECURSIVE contains_from(_, _, _)
contains_from(d, references, i) ==
    IF i > Len(references)
    THEN [raised |-> NoError, about |-> None, value |-> FALSE]
    ELSE LET g == get_metric(d, references[i]) IN
         IF g.raised # NoError
         THEN g
         ELSE IF IsCumulativeOrHasOffsetInput(g.value)
         THEN [raised |-> NoError, about |-> None, value |-> TRUE]
         ELSE contains_from(d, references, i + 1)

\* contains_cumulative_or_time_offset_metric that looks every reference up
\* before it tests any metric
contains_after_looking_up_all(d, references) ==
    IF get_metrics(d, references).raised # NoError
    THEN get_metrics(d, references)
    ELSE contains_from(d, references, 1)

contains_cumulative_or_time_offset_metric(d, references) ==
    contains_from(d, references, 1)

\* the combined filter with the filter of the original metric put first
CombinedFilterOriginalFirst(input_metric, original_metric_obj) ==
    IF input_metric.filter # None
    THEN IF original_metric_obj.filter # None
         THEN combine(create_from_where_filter(original_metric_obj.filter),
                      create_from_where_filter(input_metric.filter))
         ELSE create_from_where_filter(input_metric.filter)
    ELSE IF original_metric_obj.filter # None
         THEN create_from_where_filter(original_metric_obj.filter)
         ELSE NoConstraint

\* the combined filter that keeps the input's filter alone when it has one
CombinedFilterInputWins(input_metric, original_metric_obj) ==
    IF input_metric.filter # None
    THEN create_from_where_filter(input_metric.filter)
    ELSE IF original_metric_obj.filter # None
         THEN create_from_where_filter(original_metric_obj.filter)
         ELSE NoConstraint

\* combined_filter of metric_input_specs_for_metric: the filter written on the
\* input in the derived metric's definition, combined with the filter of the
\* original input metric's definition
CombinedFilter(input_metric, original_metric_obj) ==
    IF input_metric.filter # None
    THEN IF original_metric_obj.filter # None
         THEN combine(create_from_where_filter(input_metric.filter),
                      create_from_where_filter(original_metric_obj.filter))
         ELSE create_from_where_filter(input_metric.filter)
    ELSE IF original_metric_obj.filter # None
         THEN create_from_where_filter(original_metric_obj.filter)
         ELSE NoConstraint

\* the spec of an input metric that carries offset_to_grain as offset_window
InputMetricSpecOffsetsMixed(input_metric, combined_filter) ==
    MetricSpec(input_metric.name, combined_filter, input_metric.alias,
               input_metric.offset_to_grain, input_metric.offset_to_grain)

\* the MetricSpec metric_input_specs_for_metric makes of one input metric
InputMetricSpec(input_metric, combined_filter) ==
    MetricSpec(input_metric.name, combined_filter, input_metric.alias,
               input_metric.offset_window, input_metric.offset_to_grain)

\* the loop of metric_input_specs_for_metric from position i on, specs holding
\* the specs of the inputs before i
RECURSIVE input_specs_from(_, _, _, _)
input_specs_from(d, input_metrics, i, specs) ==
    IF i > Len(input_metrics)
    THEN [raised |-> NoError, about |-> None, value |-> specs]
    ELSE LET g == get_metric(d, as_reference(input_metrics[i])) IN
         IF g.raised # NoError
         THEN g
         ELSE input_specs_from(d, input_metrics, i + 1,
                Append(specs, InputMetricSpec(input_metrics[i],
                                              CombinedFilter(input_metrics[i], g.value))))

\* the loop of metric_input_specs_for_metric passing over an input whose metric
\* is unregistered
RECURSIVE input_specs_skipping(_, _, _, _)
input_specs_skipping(d, input_metrics, i, specs) ==
    IF i > Len(input_metrics)
    THEN [raised |-> NoError, about |-> None, value |-> specs]
    ELSE IF ~DictHas(d, as_reference(input_metrics[i]))
    THEN input_specs_skipping(d, input_metrics, i + 1, specs)
    ELSE input_specs_skipping(d, input_metrics, i + 1,
            Append(specs, InputMetricSpec(input_metrics[i],
                       CombinedFilter(input_metrics[i],
                                      DictGet(d, as_reference(input_metrics[i]))))))

\* metric_input_specs_for_metric that makes specs of the registered inputs only
metric_input_specs_of_registered_inputs(d, metric_reference) ==
    IF ~DictHas(d, metric_reference)
    THEN get_metric(d, metric_reference)
    ELSE input_specs_skipping(d, DictGet(d, metric_reference).input_metrics, 1, <<>>)

\* metric_input_specs_for_metric(metric_reference, resolver)
metric_input_specs_for_metric(d, metric_reference) ==
    LET g == get_metric(d, metric_reference) IN
    IF g.raised # NoError
    THEN g
    ELSE input_specs_from(d, g.value.input_metrics, 1, <<>>)

(***************************************************************************)
(* Inputs.                                                                 *)
(***************************************************************************)
SeqsUpTo(S, n) == UNION {[1..k -> S] : k \in 0..n}

\* The metrics of the registry's manifests: per name a simple metric on x, a
\* filtered ratio of x and y, and a derived metric (with no measure of its
\* own).
ManifestMetrics ==
    {Metric(n, SIMPLE, None, <<MetricInputMeasure("x", None, None)>>, <<>>) :
        n \in MetricNames}
    \cup {Metric(n, RATIO, "f", <<MetricInputMeasure("x", None, None),
                                  MetricInputMeasure("y", None, None)>>, <<>>) :
        n \in MetricNames}
    \cup {Metric(n, DERIVED, None, <<>>, <<MetricInput("m1", None, None, None, None)>>) :
        n \in MetricNames}

Manifests == SeqsUpTo(ManifestMetrics, MaxManifest)

\* the measure references a semantic model may hold
MeasureReferenceSets == {{MeasureReference("x")}, {MeasureReference("x"), MeasureReference("y")}}

RefSeqs == SeqsUpTo(MetricRefs, MaxRefs)

(***************************************************************************)
(* The index: the state after the constructor, then any calls.             *)
(***************************************************************************)
\* the state the constructor leaves for a manifest and a semantic model
Constructed(manifest, mrs) ==
    LET r == construct(<<>>, mrs, manifest, 1) IN
    /\ _metrics = r.metrics
    /\ measure_references = mrs
    /\ phase = IF r.raised = NoError THEN "ready" ELSE "failed"
    /\ result = [op |-> "__init__", args |-> manifest, raised |-> r.raised,
                 about |-> r.about, value |-> None]
    /\ node_id_counter = 0
    /\ data_source = None

Init == \E manifest \in Manifests, mrs \in MeasureReferenceSets : Constructed(manifest, mrs)

AddMetric ==
    /\ phase = "ready"
    /\ \E metric \in ManifestMetrics :
        LET r == add_metric(_metrics, measure_references, metric) IN
        /\ _metrics' = r.metrics
        /\ result' = [op |-> "add_metric", args |-> metric, raised |-> r.raised,
                      about |-> r.about, value |-> None]
    /\ UNCHANGED <<measure_references, phase, node_id_counter, data_source>>

\* get_metric on a dict that registers the key it misses (a defaultdict)
GetMetricRegistering ==
    /\ phase = "ready"
    /\ \E metric_reference \in MetricRefs :
        LET r == get_metric(_metrics, metric_reference) IN
        /\ result' = [op |-> "get_metric", args |-> metric_reference,
                      raised |-> r.raised, about |-> r.about, value |-> r.value]
        /\ _metrics' = IF r.raised = NoError THEN _metrics
                       ELSE DictSet(_metrics, metric_reference, None)
    /\ UNCHANGED <<measure_references, phase, node_id_counter, data_source>>

GetMetric ==
    /\ phase = "ready"
    /\ \E metric_reference \in MetricRefs :
        LET r == get_metric(_metrics, metric_reference) IN
        result' = [op |-> "get_metric", args |-> metric_reference,
                   raised |-> r.raised, about |-> r.about, value |-> r.value]
    /\ UNCHANGED <<_metrics, measure_references, phase, node_id_counter, data_source>>

GetMetrics ==
    /\ phase = "ready"
    /\ \E refs \in RefSeqs :
        LET r == get_metrics(_metrics, refs) IN
        result' = [op |-> "get_metrics", args |-> refs,
                   raised |-> r.raised, about |-> r.about, value |-> r.value]
    /\ UNCHANGED <<_metrics, measure_references, phase, node_id_counter, data_source>>

MetricReferencesProperty ==
    /\ phase = "ready"
    /\ result' = [op |-> "metric_references", args |-> None, raised |-> NoError,
                  about |-> None, value |-> metric_references(_metrics)]
    /\ UNCHANGED <<_metrics, measure_references, phase, node_id_counter, data_source>>

Next == AddMetric \/ GetMetric \/ GetMetrics \/ MetricReferencesProperty

Spec == Init /\ [][Next]_vars

(***************************************************************************)
(* The expander on the index of a manifest.                                *)
(***************************************************************************)
AllMeasureReferences == {MeasureReference(m) : m \in MeasureNames}

\* at most one of the metrics of S, as a manifest
Optional(S) == {<<>>} \cup {<<m>> : m \in S}

NonEmptySeqsUpTo(S, n) == UNION {[1..k -> S] : k \in 1..n}

PlainMeasure == MetricInputMeasure("x", None, None)

\* offset_window and offset_to_grain of an input metric
Offsets == {<<None, None>>, <<"5_days", None>>, <<None, "month">>}

\* Manifests for contains_cumulative_or_time_offset_metric: m1 (if any) is
\* simple, cumulative or derived from m2 and m3, with or without offsets; m2
\* (if any) is cumulative or derived from m3, with or without an offset; m3 is
\* simple or cumulative.
ContainsInputs == {MetricInput(k, None, None, o[1], o[2]) : k \in {"m2", "m3"}, o \in Offsets}

ContainsOuter ==
    {Metric("m1", t, None, <<PlainMeasure>>, <<>>) : t \in {SIMPLE, CUMULATIVE}}
    \cup {Metric("m1", DERIVED, None, <<>>, ins) :
            ins \in NonEmptySeqsUpTo(ContainsInputs, MaxInputs)}

ContainsMiddle ==
    {Metric("m2", CUMULATIVE, None, <<PlainMeasure>>, <<>>)}
    \cup {Metric("m2", DERIVED, None, <<>>, <<MetricInput("m3", None, None, ow, None)>>) :
            ow \in {None, "5_days"}}

ContainsLeaf ==
    {Metric("m3", t, None, <<PlainMeasure>>, <<>>) : t \in {SIMPLE, CUMULATIVE}}

ContainsManifests ==
    {a \o b \o <<c>> : a \in Optional(ContainsOuter), b \in Optional(ContainsMiddle),
                       c \in ContainsLeaf}

InitContains == \E manifest \in ContainsManifests : Constructed(manifest, AllMeasureReferences)

ContainsCumulativeOrTimeOffsetMetric ==
    /\ phase = "ready"
    /\ \E refs \in RefSeqs :
        LET r == contains_cumulative_or_time_offset_metric(_metrics, refs) IN
        result' = [op |-> "contains_cumulative_or_time_offset_metric", args |-> refs,
                   raised |-> r.raised, about |-> r.about, value |-> r.value]
    /\ UNCHANGED <<_metrics, measure_references, phase, node_id_counter, data_source>>

SpecContains == InitContains /\ [][ContainsCumulativeOrTimeOffsetMetric]_vars

\* Manifests for metric_input_specs_for_metric: m1 is derived, with or without
\* a filter of its own, from m2 and m3, each input with or without a filter, an
\* alias and offsets; m2 and m3 are simple, with or without a filter; m3 may be
\* missing from the manifest.
\* alias, offset_window and offset_to_grain of an input metric
InputShapes ==
    {<<None, None, None>>, <<"al", "5_days", None>>, <<None, None, "month">>,
     <<"al", "5_days", "month">>}

InputsInputs ==
    {MetricInput(k, f, sh[1], sh[2], sh[3]) :
        k \in {"m2", "m3"}, f \in {None, "fi"}, sh \in InputShapes}

InputsDerived ==
    {Metric("m1", DERIVED, f, <<>>, ins) :
        f \in {None, "fd"}, ins \in NonEmptySeqsUpTo(InputsInputs, MaxInputs)}

InputsOriginal(n) == {Metric(n, SIMPLE, f, <<PlainMeasure>>, <<>>) : f \in {None, "fo"}}

InputsManifests ==
    {<<a, b>> \o c : a \in InputsDerived, b \in InputsOriginal("m2"),
                     c \in Optional(InputsOriginal("m3"))}

InitInputs == \E manifest \in InputsManifests : Constructed(manifest, AllMeasureReferences)

MetricInputSpecsForMetric ==
    /\ phase = "ready"
    /\ \E metric_reference \in MetricRefs :
        LET r == metric_input_specs_for_metric(_metrics, metric_reference) IN
        result' = [op |-> "metric_input_specs_for_metric", args |-> metric_reference,
                   raised |-> r.raised, about |-> r.about, value |-> r.value]
    /\ UNCHANGED <<_metrics, measure_references, phase, node_id_counter, data_source>>

SpecInputs == InitInputs /\ [][MetricInputSpecsForMetric]_vars

\* Manifests for measures_for_metric: one metric of any type, with or without
\* a filter of its own, each input measure with or without a filter and an
\* alias.
InputMeasures ==
    {MetricInputMeasure(m, f, a) :
        m \in MeasureNames, f \in {None, "fi"}, a \in {None, "al"}}

MeasuresMetrics ==
    {Metric(n, t, f, <<im>>, <<>>) :
        n \in MetricNames, t \in {SIMPLE, CUMULATIVE}, f \in {None, "fm"},
        im \in InputMeasures}
    \cup {Metric(n, RATIO, f, <<num, den>>, <<>>) :
        n \in MetricNames, f \in {None, "fm"}, num \in InputMeasures,
        den \in InputMeasures}
    \cup {Metric(n, DERIVED, f, <<>>, <<MetricInput("m1", None, None, None, None)>>) :
        n \in MetricNames, f \in {None, "fm"}}

InitMeasures == \E metric \in MeasuresMetrics : Constructed(<<metric>>, AllMeasureReferences)

MeasuresForMetric ==
    /\ phase = "ready"
    /\ \E metric_reference \in MetricRefs :
        LET r == measures_for_metric(_metrics, metric_reference) IN
        result' = [op |-> "measures_for_metric", args |-> metric_reference,
                   raised |-> r.raised, about |-> r.about, value |-> r.value]
    /\ UNCHANGED <<_metrics, measure_references, phase, node_id_counter, data_source>>

SpecMeasures == InitMeasures /\ [][MeasuresForMetric]_vars

(***************************************************************************)
(* The semantic model the linkable-spec resolver and the plan builder read *)
(* (SemanticModelSemantics, ValidLinkableSpecResolver): data sources with  *)
(* their entities, dimensions and measures.                                *)
(***************************************************************************)
\* max_entity_links of the resolver
MAX_JOIN_HOPS == 2

PRIMARY == "PRIMARY"
UNIQUE == "UNIQUE"
FOREIGN == "FOREIGN"

UnableToSatisfyQueryError == "UnableToSatisfyQueryError"

Entity(name, role) == [name |-> name, role |-> role]

\* a categorical dimension
Dimension(name) == [name |-> name, type |-> "categorical"]

\* a time dimension, stored at day granularity
TimeDimension(name) == [name |-> name, type |-> "time"]

DataSource(name, entities, dimensions, measures) ==
    [name |-> name, entities |-> entities, dimensions |-> dimensions,
     measures |-> measures]

\* the data sources of the semantic model, in the manifest's order: two fact
\* sources keyed by a foreign listing, the listing source, two user sources
\* that both carry home_country, the company source, three hops from the
\* fact sources, and the revenue source, joined to nothing
DataSources ==
    << DataSource("bookings_source",
                  <<Entity("booking", PRIMARY), Entity("listing", FOREIGN)>>,
                  <<Dimension("is_instant"), TimeDimension("ds"), TimeDimension("paid_at")>>,
                  <<"bookings">>),
       DataSource("views_source",
                  <<Entity("view", PRIMARY), Entity("listing", FOREIGN)>>,
                  <<TimeDimension("ds"), Dimension("is_instant")>>,
                  <<"views">>),
       DataSource("listings_latest",
                  <<Entity("listing", PRIMARY), Entity("user", FOREIGN)>>,
                  <<Dimension("country_latest")>>,
                  <<"listings">>),
       DataSource("users_latest",
                  <<Entity("user", PRIMARY), Entity("company", FOREIGN)>>,
                  <<Dimension("home_country"), Dimension("home_state_latest")>>,
                  <<>>),
       DataSource("users_ds_source",
                  <<Entity("user", UNIQUE)>>,
                  <<Dimension("home_country")>>,
                  <<>>),
       DataSource("companies",
                  <<Entity("company", PRIMARY)>>,
                  <<Dimension("company_name")>>,
                  <<>>),
       DataSource("revenue_source",
                  <<Entity("txn", PRIMARY)>>,
                  <<TimeDimension("ds")>>,
                  <<"txn_revenue">>) >>

\* granularities a day-grained column is emitted at (coarsening only), and
\* the date parts
Granularities == <<"day", "month">>
DateParts == <<None, "year">>

DataSourceNamed(name) == DataSources[CHOOSE i \in DOMAIN DataSources : DataSources[i].name = name]

\* the data source owning a measure (a measure name is unique in the model)
SourceOfMeasure(measure) ==
    DataSources[CHOOSE i \in DOMAIN DataSources : measure \in Range(DataSources[i].measures)]

\* the semantic model's measure references
PlannerMeasureReferences ==
    {MeasureReference(m) : m \in UNION {Range(DataSources[i].measures) : i \in DOMAIN DataSources}}

(***************************************************************************)
(* Linkable specs.                                                         *)
(***************************************************************************)
DimensionSpec(element_name, entity_links) ==
    [kind |-> "dimension", element_name |-> element_name, entity_links |-> entity_links,
     time_granularity |-> None, date_part |-> None]

TimeDimensionSpec(element_name, entity_links, time_granularity, date_part) ==
    [kind |-> "time_dimension", element_name |-> element_name,
     entity_links |-> entity_links, time_granularity |-> time_granularity,
     date_part |-> date_part]

EntitySpec(element_name, entity_links) ==
    [kind |-> "entity", element_name |-> element_name, entity_links |-> entity_links,
     time_granularity |-> None, date_part |-> None]

RECURSIVE Join(_, _)
\* sep.join(parts)
Join(sep, parts) ==
    IF parts = <<>> THEN ""
    ELSE IF Len(parts) = 1 THEN parts[1]
    ELSE parts[1] \o sep \o Join(sep, Tail(parts))

\* spec.qualified_name: the entity links, the element name and, for a time
\* dimension, the granularity, joined by "__"; the date part is no part of it
qualified_name(spec) ==
    Join("__", spec.entity_links \o <<spec.element_name>>
               \o (IF spec.kind = "time_dimension" THEN <<spec.time_granularity>> ELSE <<>>))

RECURSIVE Flatten(_)
\* the concatenation of a sequence of sequences
Flatten(ss) == IF ss = <<>> THEN <<>> ELSE Head(ss) \o Flatten(Tail(ss))

Contains(s, x) == \E i \in DOMAIN s : s[i] = x

RECURSIVE Reverse(_)
Reverse(s) == IF s = <<>> THEN <<>> ELSE Reverse(Tail(s)) \o <<Head(s)>>

(***************************************************************************)
(* The join graph: a hop from a data source to another over a shared       *)
(* entity.                                                                 *)
(***************************************************************************)
HasEntity(source, entity_name) ==
    \E i \in DOMAIN source.entities : source.entities[i].name = entity_name

RoleOf(source, entity_name) ==
    source.entities[CHOOSE i \in DOMAIN source.entities :
                        source.entities[i].name = entity_name].role

\* the role looked up on the left side
ValidJoinLeftSide(left, right, entity_name) ==
    /\ left.name # right.name
    /\ HasEntity(left, entity_name)
    /\ HasEntity(right, entity_name)
    /\ RoleOf(left, entity_name) \in {PRIMARY, UNIQUE}

\* a join from left to right over entity_name is valid iff the entity is
\* PRIMARY or UNIQUE on the right side
ValidJoin(left, right, entity_name) ==
    /\ left.name # right.name
    /\ HasEntity(left, entity_name)
    /\ HasEntity(right, entity_name)
    /\ RoleOf(right, entity_name) \in {PRIMARY, UNIQUE}

\* the hops out of a data source: <<entity name, right data source name>>
HopsFrom(left) ==
    Flatten([i \in DOMAIN left.entities |->
        LET e == left.entities[i].name IN
        Flatten([j \in DOMAIN DataSources |->
            IF ValidJoin(left, DataSources[j], e)
            THEN <<[entity |-> e, source |-> DataSources[j].name]>> ELSE <<>>])])

RECURSIVE PathsFrom(_, _, _)
\* the join paths of at most depth hops that start at a data source and visit
\* no data source twice, the empty path first
PathsFrom(left, visited, depth) ==
    <<<<>>>> \o
    (IF depth = 0 THEN <<>>
     ELSE LET hops == HopsFrom(left) IN
          Flatten([i \in DOMAIN hops |->
              IF hops[i].source \in visited THEN <<>>
              ELSE LET rest == PathsFrom(DataSourceNamed(hops[i].source),
                                         visited \cup {hops[i].source}, depth - 1)
                   IN [k \in DOMAIN rest |-> <<hops[i]>> \o rest[k]]]))

\* the join paths of a resolver that follows one hop more
JoinPathsOneHopMore(source) == PathsFrom(source, {source.name}, MAX_JOIN_HOPS + 1)

\* the join paths of the resolver, built with max_entity_links=MAX_JOIN_HOPS
JoinPaths(source) == PathsFrom(source, {source.name}, MAX_JOIN_HOPS)

\* the entity link path of a join path
EntityLinks(path) == [i \in DOMAIN path |-> path[i].entity]

\* the data source a join path from source ends at
EndOf(source, path) ==
    IF path = <<>> THEN source ELSE DataSourceNamed(path[Len(path)].source)

(***************************************************************************)
(* ValidLinkableSpecResolver.get_linkable_elements_for_metrics.            *)
(***************************************************************************)
LOCAL_PROPERTY == "LOCAL"
JOINED == "JOINED"
MULTI_HOP_JOINED == "MULTI_HOP_JOINED"
DERIVED_TIME_GRANULARITY == "DERIVED_TIME_GRANULARITY"
METRIC_TIME == "METRIC_TIME"
ENTITY == "ENTITY"

all_properties ==
    {LOCAL_PROPERTY, JOINED, MULTI_HOP_JOINED, DERIVED_TIME_GRANULARITY, METRIC_TIME, ENTITY}

\* the property a depth tags
DepthProperty(path) ==
    IF Len(path) = 0 THEN LOCAL_PROPERTY
    ELSE IF Len(path) = 1 THEN JOINED ELSE MULTI_HOP_JOINED

LinkableElement(spec, properties, path) ==
    [spec |-> spec, properties |-> properties, path |-> path]

\* a time dimension at every granularity and every date part
TimeElements(element_name, path, properties) ==
    Flatten([g \in DOMAIN Granularities |->
        [p \in DOMAIN DateParts |->
            LinkableElement(
                TimeDimensionSpec(element_name, EntityLinks(path), Granularities[g],
                                  DateParts[p]),
                properties \cup (IF g > 1 THEN {DERIVED_TIME_GRANULARITY} ELSE {}),
                path)]])

\* the elements found at the end of a join path: the dimensions of the data
\* source, then its entities
ElementsAt(source, path) ==
    LET end == EndOf(source, path)
        depth == {DepthProperty(path)}
    IN Flatten([i \in DOMAIN end.dimensions |->
            LET d == end.dimensions[i] IN
            IF d.type = "time"
            THEN TimeElements(d.name, path, depth)
            ELSE <<LinkableElement(DimensionSpec(d.name, EntityLinks(path)), depth, path)>>])
       \o
       Flatten([i \in DOMAIN end.entities |->
            IF path # <<>> /\ end.entities[i].name = path[Len(path)].entity
            THEN <<>>
            ELSE <<LinkableElement(EntitySpec(end.entities[i].name, EntityLinks(path)),
                                   depth \cup {ENTITY}, path)>>])

\* the elements reachable from a measure: metric_time, then the elements at
\* the end of every join path from the measure's data source
ElementsReachableFrom(measure) ==
    LET source == SourceOfMeasure(measure)
        paths == JoinPaths(source)
    IN TimeElements("metric_time", <<>>, {LOCAL_PROPERTY, METRIC_TIME})
       \o Flatten([k \in DOMAIN paths |-> ElementsAt(source, paths[k])])

\* the resolver's table, built once: measure name -> reachable elements
ElementsByMeasure ==
    [m \in {r.element_name : r \in PlannerMeasureReferences} |-> ElementsReachableFrom(m)]

ElementsForMeasure(measure) == ElementsByMeasure[measure]

\* the specs of a sequence of elements, each once, in order of first mention
RECURSIVE SpecsOf(_, _)
SpecsOf(elements, seen) ==
    IF elements = <<>> THEN seen
    ELSE SpecsOf(Tail(elements),
                 IF Contains(seen, Head(elements).spec) THEN seen
                 ELSE Append(seen, Head(elements).spec))

Passes(element, with_any_of, without_any_of) ==
    /\ element.properties \cap with_any_of # {}
    /\ element.properties \cap without_any_of = {}

\* the specs reachable from a measure through elements that pass the filters
SpecsForMeasure(measure, with_any_of, without_any_of) ==
    SpecsOf(SelectSeq(ElementsForMeasure(measure),
                      LAMBDA e : Passes(e, with_any_of, without_any_of)), <<>>)

RECURSIVE BackingMeasures(_, _, _)
\* the measures behind a metric, its own first, then those of its input
\* metrics
BackingMeasures(d, metric_reference, depth) ==
    IF ~DictHas(d, metric_reference) THEN <<>>
    ELSE LET metric == DictGet(d, metric_reference) IN
         [i \in DOMAIN metric.input_measures |-> metric.input_measures[i].name]
         \o (IF depth = 0 THEN <<>>
              ELSE Flatten([i \in DOMAIN metric.input_metrics |->
                       BackingMeasures(d, as_reference(metric.input_metrics[i]), depth - 1)]))

BackingMeasuresOfAll(d, references) ==
    Flatten([i \in DOMAIN references |-> BackingMeasures(d, references[i], Len(d))])

\* a spec is reachable from a measure through an element that passes the
\* filters
ReachableFrom(spec, measure, with_any_of, without_any_of) ==
    \E i \in DOMAIN ElementsByMeasure[measure] :
        /\ ElementsByMeasure[measure][i].spec = spec
        /\ Passes(ElementsByMeasure[measure][i], with_any_of, without_any_of)

\* the specs of a tuple that are reachable from every one of the measures, in
\* the tuple's order
ReachableFromAll(specs, measures, with_any_of, without_any_of) ==
    SelectSeq(specs, LAMBDA s :
        \A k \in DOMAIN measures :
            ReachableFrom(s, measures[k], with_any_of, without_any_of))

\* get_linkable_elements_for_metrics(...).as_spec_set.as_tuple: the specs
\* reachable from every backing measure of every metric, in the order they
\* were found from the first measure
get_linkable_elements_for_metrics(d, references, with_any_of, without_any_of) ==
    LET measures == BackingMeasuresOfAll(d, references) IN
    IF measures = <<>> THEN <<>>
    ELSE ReachableFromAll(SpecsForMeasure(Head(measures), with_any_of, without_any_of),
                          Tail(measures), with_any_of, without_any_of)

\* the specs reachable from the measures of the model, measure by measure
AllSpecs ==
    Flatten([i \in DOMAIN DataSources |->
        Flatten([k \in DOMAIN DataSources[i].measures |->
            SpecsOf(ElementsForMeasure(DataSources[i].measures[k]), <<>>)])])

(***************************************************************************)
(* MetricSemantics.element_specs_for_metrics.                              *)
(***************************************************************************)
\* qualified names in the ascending order of str: those of the model's
\* specs among them
QualifiedNameOrder ==
    << "booking",
       "country_latest",
       "ds__day",
       "ds__month",
       "is_instant",
       "listing",
       "listing__booking",
       "listing__country_latest",
       "listing__ds__day",
       "listing__ds__month",
       "listing__is_instant",
       "listing__paid_at__day",
       "listing__paid_at__month",
       "listing__user",
       "listing__user__company",
       "listing__user__company__company_name",
       "listing__user__home_country",
       "listing__user__home_state_latest",
       "listing__user__user__company",
       "listing__user__user__home_country",
       "listing__user__user__home_state_latest",
       "listing__view",
       "metric_time__day",
       "metric_time__month",
       "paid_at__day",
       "paid_at__month",
       "txn",
       "user",
       "user__company",
       "user__company__company_name",
       "user__home_country",
       "user__home_state_latest",
       "user__user__company",
       "user__user__company__company_name",
       "user__user__home_country",
       "user__user__home_state_latest",
       "view" >>

\* the place of a qualified name in the order of str
KeyRank(name) == CHOOSE i \in DOMAIN QualifiedNameOrder : QualifiedNameOrder[i] = name

\* the sort key of each spec of the model, computed once
KeyOfSpec == [s \in Range(AllSpecs) |-> KeyRank(qualified_name(s))]

RECURSIVE sorted_from(_, _, _)
\* sorted(...) on <<key, item>> pairs: a stable sort, each pair put behind
\* the pairs already placed whose key is not greater
sorted_from(keyed, i, res) ==
    IF i > Len(keyed) THEN res
    ELSE sorted_from(keyed, i + 1,
                     SelectSeq(res, LAMBDA y : y[1] <= keyed[i][1])
                     \o <<keyed[i]>>
                     \o SelectSeq(res, LAMBDA y : y[1] > keyed[i][1]))

\* sorted(t, key=lambda x: x.qualified_name): the key of each item is
\* computed once
sorted_by_qualified_name(t) ==
    LET sorted == sorted_from([i \in DOMAIN t |-> <<KeyOfSpec[t[i]], t[i]>>], 1, <<>>)
    IN [i \in DOMAIN sorted |-> sorted[i][2]]

\* the tuple as the resolver returned it
element_specs_unsorted(d, references, with_any_property, without_any_property) ==
    get_linkable_elements_for_metrics(d, references, with_any_property, without_any_property)

\* the resolver asked about the first metric only
element_specs_for_first_metric(d, references, with_any_property, without_any_property) ==
    sorted_by_qualified_name(
        get_linkable_elements_for_metrics(d, <<references[1]>>, with_any_property,
                                          without_any_property))

element_specs_for_metrics(d, references, with_any_property, without_any_property) ==
    sorted_by_qualified_name(
        get_linkable_elements_for_metrics(d, references, with_any_property,
                                          without_any_property))

(***************************************************************************)
(* The manifest of the planner's semantic model.                           *)
(***************************************************************************)
Simple(name, measure) ==
    Metric(name, SIMPLE, None, <<MetricInputMeasure(measure, None, None)>>, <<>>)

PlannerManifest ==
    << Simple("bookings", "bookings"),
       Simple("views", "views"),
       Simple("listings", "listings"),
       Metric("bookings_per_view", RATIO, None,
              <<MetricInputMeasure("bookings", None, None),
                MetricInputMeasure("views", None, None)>>, <<>>),
       Simple("bookings_fill_nulls_with_0", "bookings"),
       Metric("bookings_5_day_lag", DERIVED, None, <<>>,
              <<MetricInput("bookings", None, None, "5_days", None)>>),
       Metric("bookings_growth_2_weeks_fill_nulls_with_0", DERIVED, None, <<>>,
              <<MetricInput("bookings_fill_nulls_with_0", None, None, None, None),
                MetricInput("bookings_fill_nulls_with_0", None, "bookings_2_weeks_ago",
                            "14_days", None)>>),
       Metric("trailing_2_months_revenue", CUMULATIVE, None,
              <<MetricInputMeasure("txn_revenue", None, None)>>, <<>>) >>

\* the metrics whose input measure has fill_nulls_with: 0
FillNullsWithZero == {"bookings_fill_nulls_with_0"}

\* the window of the cumulative metrics, as <<metric name, window>>
CumulativeWindows == <<<<"trailing_2_months_revenue", "2_months">>>>

PlannerMetricNames == {PlannerManifest[i].name : i \in DOMAIN PlannerManifest}

InitPlanner == Constructed(PlannerManifest, PlannerMeasureReferences)

\* the metrics asked about
LinkableMetricRefs ==
    {MetricReference(n) : n \in {"bookings", "views", "listings", "bookings_per_view",
                                 "bookings_5_day_lag"}}

LinkableRefSeqs == NonEmptySeqsUpTo(LinkableMetricRefs, MaxRefs)

\* <<with_any_property, without_any_property>>
PropertyFilters ==
    { <<all_properties, {}>>,
      <<all_properties, {MULTI_HOP_JOINED, DERIVED_TIME_GRANULARITY}>>,
      <<{LOCAL_PROPERTY, ENTITY}, {METRIC_TIME}>>,
      <<{JOINED, MULTI_HOP_JOINED}, {ENTITY}>> }

ElementSpecsForMetrics ==
    /\ phase = "ready"
    /\ \E refs \in LinkableRefSeqs, f \in PropertyFilters :
        result' = [op |-> "element_specs_for_metrics",
                   args |-> [metric_references |-> refs, with_any_property |-> f[1],
                             without_any_property |-> f[2]],
                   raised |-> NoError, about |-> None,
                   value |-> element_specs_for_metrics(_metrics, refs, f[1], f[2])]
    /\ UNCHANGED <<_metrics, measure_references, phase, node_id_counter, data_source>>

SpecLinkable == InitPlanner /\ [][ElementSpecsForMetrics]_vars

(***************************************************************************)
(* DataflowPlanBuilder.build_plan.                                         *)
(***************************************************************************)
\* most plan nodes a builder has created when it is asked for a plan
MaxNodesBefore == 4

\* a query: the metric names, the requested linkable specs, the predicate of
\* the where filter (None, or the name of the element it references) and
\* whether a time range constraint is given
MetricFlowQuerySpec(metric_names, linkable_specs, where_constraint, time_range_constraint) ==
    [metric_names |-> metric_names, linkable_specs |-> linkable_specs,
     where_constraint |-> where_constraint,
     time_range_constraint |-> time_range_constraint]

\* no offset_window and no offset_to_grain
NoOffset == <<None, None>>

\* plan nodes before they are numbered: parents are places in the sequence
PlanNode(kind, parents, params) == [kind |-> kind, parents |-> parents, params |-> params]

\* a plan of one source node
Leaf(kind, params) == <<PlanNode(kind, <<>>, params)>>

\* a node on top of the output of a plan
Then(plan, kind, params) == Append(plan, PlanNode(kind, <<Len(plan)>>, params))

\* a plan moved k places up
Shift(plan, k) ==
    [i \in DOMAIN plan |->
        [plan[i] EXCEPT !.parents = [j \in DOMAIN plan[i].parents |-> plan[i].parents[j] + k]]]

RECURSIVE Merged(_, _, _)
\* the plans one after another, and the places of their outputs
Merged(plans, nodes, outputs) ==
    IF plans = <<>> THEN [nodes |-> nodes, outputs |-> outputs]
    ELSE Merged(Tail(plans), nodes \o Shift(Head(plans), Len(nodes)),
                Append(outputs, Len(nodes) + Len(Head(plans))))

\* the outputs of several plans under one node; a single plan is left alone
Combined(plans, kind, params) ==
    IF Len(plans) = 1 THEN plans[1]
    ELSE LET m == Merged(plans, <<>>, <<>>) IN
         Append(m.nodes, PlanNode(kind, m.outputs, params))

\* the requested time dimensions
TimeDimensionSpecs(query) ==
    SelectSeq(query.linkable_specs, LAMBDA s : s.kind = "time_dimension")

\* the grain of the query: that of the first requested time dimension, and
\* the grain of the time spine where none is requested
QueryGranularity(query) ==
    IF TimeDimensionSpecs(query) = <<>> THEN "day"
    ELSE TimeDimensionSpecs(query)[1].time_granularity

RECURSIVE PathsOf(_, _, _)
\* the join paths of the elements that carry a spec, each path once
PathsOf(elements, spec, paths) ==
    IF elements = <<>> THEN paths
    ELSE PathsOf(Tail(elements), spec,
                 IF Head(elements).spec = spec /\ ~Contains(paths, Head(elements).path)
                 THEN Append(paths, Head(elements).path) ELSE paths)

\* the join paths from a measure's data source that lead to a requested spec
CandidatePaths(measure, spec) == PathsOf(ElementsForMeasure(measure), spec, <<>>)

\* the requested specs that are not local to the measure's data source
JoinedSpecs(query) == SelectSeq(query.linkable_specs, LAMBDA s : s.entity_links # <<>>)

\* one JoinDescription per hop of a join path
JoinDescriptions(path) ==
    [i \in DOMAIN path |->
        [entity |-> path[i].entity, right_source |-> path[i].source,
         role |-> RoleOf(DataSourceNamed(path[i].source), path[i].entity)]]

\* the join path planned for a spec: the only candidate
ChosenPath(measure, spec) == CandidatePaths(measure, spec)[1]

\* no spec is ambiguous
AmbiguousNever(measure, spec) == FALSE

\* a spec is ambiguous from a measure's data source if more than one join
\* path leads to it
Ambiguous(measure, spec) == Len(CandidatePaths(measure, spec)) > 1

\* the names of the measures the query's metrics expand to, derived metrics
\* through their inputs
QueryMeasures(d, query) ==
    BackingMeasuresOfAll(d, [i \in DOMAIN query.metric_names |->
                                MetricReference(query.metric_names[i])])

\* the requested specs outside the intersection of the linkable specs of the
\* query's metrics, each checked against the checker's answer
NotLinkableAgainst(linkable, query) ==
    SelectSeq(query.linkable_specs, LAMBDA s : ~Contains(linkable, s))

NotLinkable(d, query) ==
    NotLinkableAgainst(
        element_specs_for_metrics(d, [i \in DOMAIN query.metric_names |->
                                         MetricReference(query.metric_names[i])],
                                  all_properties, {}),
        query)

\* the <<measure, spec>> pairs of the query whose join path is ambiguous
AmbiguousJoins(d, query) ==
    LET measures == QueryMeasures(d, query)
        joined == JoinedSpecs(query)
    IN Flatten([m \in DOMAIN measures |->
           Flatten([s \in DOMAIN joined |->
               IF Ambiguous(measures[m], joined[s])
               THEN <<[measure |-> measures[m], spec |-> joined[s]]>> ELSE <<>>])])

\* the hops of the JoinToBaseNode of a measure: those of the join path of
\* every joined spec
MeasureJoins(measure, query) ==
    LET joined == JoinedSpecs(query) IN
    Flatten([s \in DOMAIN joined |->
        JoinDescriptions(ChosenPath(measure, joined[s]))])

\* the predicates on metric_time that a time spine join must come before
MetricTimePredicates(query) ==
    (IF query.where_constraint = "metric_time" THEN <<"where">> ELSE <<>>)
    \o (IF query.time_range_constraint THEN <<"time_range">> ELSE <<>>)

RECURSIVE Filtered(_, _)
\* a WhereConstraintNode for each of the predicates
Filtered(plan, predicates) ==
    IF predicates = <<>> THEN plan
    ELSE Filtered(Then(plan, "WhereConstraintNode", [predicate |-> Head(predicates)]),
                  Tail(predicates))

\* the filters applied before the aggregation: the time range constraint, and
\* the where filter unless a time spine join has to come before it
PreAggregationPredicates(query, fills_nulls) ==
    (IF query.time_range_constraint THEN <<"time_range">> ELSE <<>>)
    \o (IF query.where_constraint # None
           /\ ~(fills_nulls /\ query.where_constraint = "metric_time")
        THEN <<"where">> ELSE <<>>)

\* the CumulativeWindowNode of a cumulative measure; cumulative is the
\* metric's window as an Optional
Accumulated(plan, cumulative) ==
    IF cumulative = <<>> THEN plan
    ELSE Then(plan, "CumulativeWindowNode", [window |-> cumulative[1]])

\* the subplan of a measure with the CumulativeWindowNode put behind the
\* aggregation
MeasurePlanAccumulatedLast(measure, query, offset, fills_nulls, cumulative) ==
    LET source == SourceOfMeasure(measure)
        read == Leaf("ReadSqlSourceNode", [data_source |-> source.name])
        shifted == IF offset = NoOffset THEN read
                   ELSE Then(read, "JoinToTimeSpineNode",
                             [granularity |-> "day", offset |-> offset, fill |-> "NULL"])
        joins == MeasureJoins(measure, query)
        joined == IF joins = <<>> THEN shifted
                  ELSE Then(shifted, "JoinToBaseNode", [links |-> joins])
        filtered == Filtered(joined, PreAggregationPredicates(query, fills_nulls))
    IN Accumulated(Then(filtered, "AggregateMeasuresNode",
                        [measures |-> <<measure>>, group_by |-> query.linkable_specs]),
                   cumulative)

\* the subplan of one input measure: read, accumulate over the window of a
\* cumulative metric, join to the time spine for an offset, join to base,
\* filter, aggregate
MeasurePlan(measure, query, offset, fills_nulls, cumulative) ==
    LET source == SourceOfMeasure(measure)
        read == Accumulated(Leaf("ReadSqlSourceNode", [data_source |-> source.name]),
                            cumulative)
        shifted == IF offset = NoOffset THEN read
                   ELSE Then(read, "JoinToTimeSpineNode",
                             [granularity |-> "day", offset |-> offset, fill |-> "NULL"])
        joins == MeasureJoins(measure, query)
        joined == IF joins = <<>> THEN shifted
                  ELSE Then(shifted, "JoinToBaseNode", [links |-> joins])
        filtered == Filtered(joined, PreAggregationPredicates(query, fills_nulls))
    IN Then(filtered, "AggregateMeasuresNode",
            [measures |-> <<measure>>, group_by |-> query.linkable_specs])

\* the time spine join of a metric with fill_nulls_with: 0 placed behind the
\* predicates on metric_time
NullFilledAfterFilters(plan, query) ==
    Then(Filtered(plan, MetricTimePredicates(query)), "JoinToTimeSpineNode",
         [granularity |-> QueryGranularity(query), offset |-> NoOffset, fill |-> "ZERO"])

\* the time spine join of a metric with fill_nulls_with: 0, then the
\* predicates on metric_time
NullFilled(plan, query) ==
    Filtered(Then(plan, "JoinToTimeSpineNode",
                  [granularity |-> QueryGranularity(query), offset |-> NoOffset,
                   fill |-> "ZERO"]),
             MetricTimePredicates(query))

\* the time spine join of step 6 whether or not a time dimension is requested
FillsNullsAlways(metric_name, query) == metric_name \in FillNullsWithZero

\* the time spine join of step 6 only for a query by metric_time
FillsNullsByMetricTimeOnly(metric_name, query) ==
    /\ metric_name \in FillNullsWithZero
    /\ \E i \in DOMAIN query.linkable_specs :
           query.linkable_specs[i].element_name = "metric_time"

\* a metric gets the time spine join of step 6
FillsNulls(metric_name, query) ==
    metric_name \in FillNullsWithZero /\ TimeDimensionSpecs(query) # <<>>

\* the window of a cumulative metric, as an Optional
WindowOf(metric) ==
    IF metric.type # CUMULATIVE THEN <<>>
    ELSE [i \in DOMAIN SelectSeq(CumulativeWindows, LAMBDA w : w[1] = metric.name) |->
             SelectSeq(CumulativeWindows, LAMBDA w : w[1] = metric.name)[i][2]]

RECURSIVE MetricPlan(_, _, _, _, _)
\* the subplan of one metric, as an input with an offset or as requested
MetricPlan(d, metric_name, query, offset, depth) ==
    LET metric == DictGet(d, MetricReference(metric_name))
        inputs == metric.input_metrics
    IN
    IF metric.type = DERIVED /\ depth > 0
    THEN Then(Combined([k \in DOMAIN inputs |->
                           MetricPlan(d, inputs[k].name, query,
                                      IF HasOffset(inputs[k])
                                      THEN <<inputs[k].offset_window,
                                             inputs[k].offset_to_grain>>
                                      ELSE NoOffset,
                                      depth - 1)],
                       "CombineAggregatedOutputsNode", [group_by |-> query.linkable_specs]),
              "ComputeMetricsNode", [metric |-> metric_name])
    ELSE LET fills == FillsNulls(metric_name, query)
             computed ==
                 Then(Combined([k \in DOMAIN metric.input_measures |->
                                   MeasurePlan(metric.input_measures[k].name, query, offset,
                                               fills, WindowOf(metric))],
                               "CombineAggregatedOutputsNode",
                               [group_by |-> query.linkable_specs]),
                      "ComputeMetricsNode", [metric |-> metric_name])
         IN IF fills THEN NullFilled(computed, query) ELSE computed

\* the nodes of the plan of a query that can be satisfied, sink last
PlanNodes(d, query) ==
    Then(Combined([i \in DOMAIN query.metric_names |->
                      MetricPlan(d, query.metric_names[i], query, NoOffset, Len(d))],
                  "CombineAggregatedOutputsNode", [group_by |-> query.linkable_specs]),
         "WriteToResultDataframeNode", [sink |-> TRUE])

\* the nodes numbered by the insertion counter, counting on from first_id
Numbered(nodes, first_id) ==
    [i \in DOMAIN nodes |->
        [id |-> first_id + i, kind |-> nodes[i].kind,
         parents |-> [j \in DOMAIN nodes[i].parents |-> first_id + nodes[i].parents[j]],
         params |-> nodes[i].params]]

\* build_plan(query_spec) on a builder that has created first_id nodes
build_plan(d, query, first_id) ==
    LET not_linkable == NotLinkable(d, query)
        ambiguous == AmbiguousJoins(d, query)
    IN
    IF not_linkable # <<>>
    THEN [raised |-> UnableToSatisfyQueryError,
          about |-> [reason |-> "not linkable", spec |-> not_linkable[1]], value |-> None]
    ELSE IF ambiguous # <<>>
    THEN [raised |-> UnableToSatisfyQueryError,
          about |-> [reason |-> "ambiguous join path", spec |-> ambiguous[1].spec],
          value |-> None]
    ELSE [raised |-> NoError, about |-> None,
          value |-> Numbered(PlanNodes(d, query), first_id)]

\* plan.structure_text(): a line per node in topological order, with its
\* identifier, its parameters and the identifiers of its parents
structure_text(plan) ==
    [i \in DOMAIN plan |->
        <<plan[i].kind, <<"node_id", plan[i].id>>, plan[i].params,
          <<"parents", plan[i].parents>>>>]

\* the plan without its node identifiers
Structure(plan) ==
    [i \in DOMAIN plan |->
        [kind |-> plan[i].kind, params |-> plan[i].params,
         parents |-> [j \in DOMAIN plan[i].parents |-> plan[i].parents[j] - plan[1].id + 1]]]

(***************************************************************************)
(* The queries handed to build_plan.                                       *)
(***************************************************************************)
MetricTime(granularity) == TimeDimensionSpec("metric_time", <<>>, granularity, None)

QueryMetricNames ==
    { <<"bookings">>, <<"views">>, <<"listings">>,
      <<"bookings_fill_nulls_with_0">>, <<"bookings_5_day_lag">>,
      <<"bookings_growth_2_weeks_fill_nulls_with_0">>,
      <<"trailing_2_months_revenue">>,
      <<"bookings", "views">> }

QueryTimeSpecs ==
    { <<MetricTime("day")>>,
      <<MetricTime("month")>>,
      <<TimeDimensionSpec("paid_at", <<>>, "day", None)>> }

QueryLinkableSpecs ==
    QueryTimeSpecs \cup
    { <<>>,
      <<DimensionSpec("is_instant", <<>>), DimensionSpec("country_latest", <<"listing">>)>>,
      <<MetricTime("day"), DimensionSpec("home_state_latest", <<"listing", "user">>)>>,
      <<DimensionSpec("home_country", <<"listing", "user">>)>>,
      <<TimeDimensionSpec("paid_at", <<"listing">>, "day", None)>>,
      <<EntitySpec("view", <<>>)>> }

\* every metric with every group-by, and the bookings metrics by time under a
\* where filter on metric_time with a time range constraint or under a where
\* filter on a local dimension
Queries ==
    {MetricFlowQuerySpec(m, l, None, FALSE) : m \in QueryMetricNames, l \in QueryLinkableSpecs}
    \cup
    {MetricFlowQuerySpec(m, l, c[1], c[2]) :
        m \in {<<"bookings">>, <<"bookings_fill_nulls_with_0">>,
               <<"bookings_growth_2_weeks_fill_nulls_with_0">>},
        l \in QueryTimeSpecs,
        c \in {<<"metric_time", TRUE>>, <<"is_instant", FALSE>>}}

BuildPlan ==
    /\ phase = "ready"
    /\ node_id_counter <= MaxNodesBefore
    /\ \E query \in Queries :
        \E r \in {build_plan(_metrics, query, node_id_counter)} :
            /\ node_id_counter' =
                   node_id_counter + (IF r.raised = NoError THEN Len(r.value) ELSE 0)
            /\ result' = [op |-> "build_plan", args |-> query, raised |-> r.raised,
                          about |-> r.about, value |-> r.value]
    /\ UNCHANGED <<_metrics, measure_references, phase, data_source>>

SpecPlan == InitPlanner /\ [][BuildPlan]_vars

(***************************************************************************)
(* The index of the planner's manifest and two metrics more, under every   *)
(* read operation.                                                         *)
(***************************************************************************)
\* metrics after the planner's: m2 derived from m1 (5 days before) and from
\* m3, which the manifest lacks, and m1 on the measure bookings
IndexExtra ==
    << Metric("m2", DERIVED, None, <<>>,
              <<MetricInput("m1", "fi", None, "5_days", None),
                MetricInput("m3", None, "al", None, None)>>),
       Metric("m1", SIMPLE, "fo", <<MetricInputMeasure("bookings", "fi", None)>>, <<>>) >>

InitIndex == Constructed(PlannerManifest \o IndexExtra, PlannerMeasureReferences)

NextIndex ==
    \/ GetMetric
    \/ GetMetrics
    \/ MetricReferencesProperty
    \/ MeasuresForMetric
    \/ MetricInputSpecsForMetric
    \/ ContainsCumulativeOrTimeOffsetMetric
    \/ ElementSpecsForMetrics

SpecIndex == InitIndex /\ [][NextIndex]_vars

(***************************************************************************)
(* DataSource: its element lookups, its validity window dimensions and its *)
(* partition.                                                              *)
(***************************************************************************)
\* most dimensions of a data source
MaxDimensions == 2

ValueError == "ValueError"
\* what a failing assert raises
AssertionError == "AssertionError"

\* Optional[...]: None is the empty sequence, a value x the sequence <<x>>
Nothing == <<>>
Some(x) == <<x>>

LinkableElementReference(element_name) == [kind |-> "linkable", element_name |-> element_name]

\* DimensionValidityParams
ValidityParams(is_start, is_end) == [is_start |-> is_start, is_end |-> is_end]

\* a Dimension with its validity_params (an Optional) and is_partition
ValidityDimension(name, validity_params, is_partition) ==
    [name |-> name, validity_params |-> validity_params, is_partition |-> is_partition]

\* a Measure with its aggregation
Measure(name, agg) == [name |-> name, agg |-> agg]

\* Dimension.reference and Entity.reference
linkable_reference(element) == LinkableElementReference(element.name)

\* Measure.reference
measure_reference_of(measure) == MeasureReference(measure.name)

\* the first element of elements for which Matches holds: the return inside
\* the for loop; Nothing if the loop ends
FirstMatch(elements, Matches(_)) ==
    IF \E i \in DOMAIN elements : Matches(elements[i])
    THEN Some(elements[CHOOSE i \in DOMAIN elements :
                          /\ Matches(elements[i])
                          /\ \A j \in 1..(i - 1) : ~Matches(elements[j])])
    ELSE Nothing

Returned(value) == [raised |-> NoError, about |-> None, value |-> value]

\* raise ValueError(message): about holds what the message names, the kind of
\* element in its words, the reference or name put into it and the name of
\* the data source
NotFound(kind, named, self) ==
    [raised |-> ValueError, about |-> [kind |-> kind, named |-> named, in |-> self.name],
     value |-> None]

\* get_measure(measure_reference); the message reads "No dimension with name
\* (<element_name>) in data source with name (<name>)"
get_measure(self, a_measure_reference) ==
    LET found == FirstMatch(self.measures,
                            LAMBDA measure : measure_reference_of(measure) = a_measure_reference)
    IN IF found # Nothing THEN Returned(found[1])
       ELSE NotFound("dimension", a_measure_reference.element_name, self)

\* get_dimension(dimension_reference)
get_dimension(self, dimension_reference) ==
    LET found == FirstMatch(self.dimensions,
                            LAMBDA dim : linkable_reference(dim) = dimension_reference)
    IN IF found # Nothing THEN Returned(found[1])
       ELSE NotFound("dimension", dimension_reference, self)

\* get_entity(entity_reference)
get_entity(self, entity_reference) ==
    LET found == FirstMatch(self.entities,
                            LAMBDA entity : linkable_reference(entity) = entity_reference)
    IN IF found # Nothing THEN Returned(found[1])
       ELSE NotFound("entity", entity_reference, self)

\* dim.validity_params and dim.validity_params.is_start
IsValidityStart(dim) == dim.validity_params # Nothing /\ dim.validity_params[1].is_start

\* dim.validity_params and dim.validity_params.is_end
IsValidityEnd(dim) == dim.validity_params # Nothing /\ dim.validity_params[1].is_end

\* the property without its assert: the first of the candidates is returned
validity_dimension_unasserted(self, IsValidity(_)) ==
    LET validity_dims == SelectSeq(self.dimensions, IsValidity) IN
    IF validity_dims = <<>> THEN Returned(Nothing)
    ELSE Returned(Some(validity_dims[1]))

\* validity_start_dimension and validity_end_dimension, which differ in the
\* test IsValidity of the comprehension only
validity_dimension(self, IsValidity(_)) ==
    LET validity_dims == SelectSeq(self.dimensions, IsValidity) IN
    IF validity_dims = <<>> THEN Returned(Nothing)
    ELSE IF Len(validity_dims) # 1
    THEN [raised |-> AssertionError, about |-> "more than one validity dimension",
          value |-> None]
    ELSE Returned(Some(validity_dims[1]))

\* validity_start_dimension without its assert
validity_start_dimension_unasserted(self) ==
    validity_dimension_unasserted(self, IsValidityStart)

validity_start_dimension(self) == validity_dimension(self, IsValidityStart)

validity_end_dimension(self) == validity_dimension(self, IsValidityEnd)

\* the partitions property
partitions(self) == SelectSeq(self.dimensions, LAMBDA dim : dim.is_partition)

\* the partition property that returns the first of several partitions
partition_first(self) ==
    IF partitions(self) = <<>> THEN Returned(Nothing)
    ELSE Returned(Some(partitions(self)[1]))

\* the partition property
partition(self) ==
    IF partitions(self) = <<>> THEN Returned(Nothing)
    ELSE IF Len(partitions(self)) > 1
    THEN [raised |-> ValueError, about |-> [kind |-> "partitions", named |-> None,
                                            in |-> self.name],
          value |-> None]
    ELSE Returned(Some(partitions(self)[1]))

(***************************************************************************)
(* A data source, then any calls on it.                                    *)
(***************************************************************************)
DimensionNames == {"ds", "window"}

ValidityParamValues ==
    {Nothing, Some(ValidityParams(TRUE, FALSE)), Some(ValidityParams(FALSE, TRUE))}

SourceDimensions ==
    {ValidityDimension(n, v, p) :
        n \in DimensionNames, v \in ValidityParamValues, p \in BOOLEAN}

\* the measures of a data source: none, one, or two of the same name
SourceMeasures ==
    {<<>>, <<Measure("x", "sum")>>, <<Measure("x", "sum"), Measure("x", "count")>>}

\* the entities of a data source: one, or two of the same name
SourceEntities ==
    {<<Entity("listing", PRIMARY)>>, <<Entity("listing", FOREIGN), Entity("listing", UNIQUE)>>}

SourceObjects ==
    {DataSource("listings", entities, dimensions, measures) :
        entities \in SourceEntities,
        dimensions \in SeqsUpTo(SourceDimensions, MaxDimensions),
        measures \in SourceMeasures}

LookupMeasureReferences == {MeasureReference("x"), MeasureReference("y")}

LookupLinkableReferences ==
    {LinkableElementReference(n) : n \in {"ds", "window", "listing", "user"}}

InitSource ==
    /\ data_source \in SourceObjects
    /\ _metrics = <<>>
    /\ measure_references = {}
    /\ phase = "ready"
    /\ result = [op |-> "DataSource", args |-> None, raised |-> NoError, about |-> None,
                 value |-> None]
    /\ node_id_counter = 0

\* a call on the data source: the outcome r of the operation op on args
Called(op, args, r) ==
    /\ result' = [op |-> op, args |-> args, raised |-> r.raised, about |-> r.about,
                  value |-> r.value]
    /\ UNCHANGED <<_metrics, measure_references, phase, node_id_counter, data_source>>

GetMeasure ==
    \E ref \in LookupMeasureReferences :
        Called("get_measure", ref, get_measure(data_source, ref))

GetDimension ==
    \E ref \in LookupLinkableReferences :
        Called("get_dimension", ref, get_dimension(data_source, ref))

GetEntity ==
    \E ref \in LookupLinkableReferences :
        Called("get_entity", ref, get_entity(data_source, ref))

ValidityStartDimension ==
    Called("validity_start_dimension", None, validity_start_dimension(data_source))

ValidityEndDimension ==
    Called("validity_end_dimension", None, validity_end_dimension(data_source))

Partitions == Called("partitions", None, Returned(partitions(data_source)))

Partition == Called("partition", None, partition(data_source))

NextSource ==
    \/ GetMeasure
    \/ GetDimension
    \/ GetEntity
    \/ ValidityStartDimension
    \/ ValidityEndDimension
    \/ Partitions
    \/ Partition

SpecSource == InitSource /\ [][NextSource]_vars

(***************************************************************************)
(* The registry: add_metric and the lookups.                               *)
(***************************************************************************)
\* the metric registered at position i of the dict
Registered(i) == _metrics[i][2]

\* C1: after any sequence of add_metric calls, the constructor's and the
\* raising ones included, every entry is keyed by the MetricReference of its
\* own metric name, no metric name is registered twice, and every measure
\* reference of every registered metric is in the semantic model's
\* measure_references.
C1_RegistryInvariant ==
    /\ \A i \in DOMAIN _metrics :
        _metrics[i][1] = [kind |-> "metric", element_name |-> Registered(i).name]
    /\ \A i, j \in DOMAIN _metrics :
        i # j => Registered(i).name # Registered(j).name
    /\ \A i \in DOMAIN _metrics :
        \A k \in DOMAIN Registered(i).input_measures :
            [kind |-> "measure", element_name |-> Registered(i).input_measures[k].name]
                \in measure_references

\* C1 witness: two metrics with measures are registered and the last
\* add_metric call raised for a third
C1_Witness ==
    /\ Len(_metrics) = 2
    /\ \A i \in DOMAIN _metrics : Len(Registered(i).input_measures) > 0
    /\ result.op = "add_metric"
    /\ result.raised = NonExistentMeasureError
    /\ \A i \in DOMAIN _metrics : Registered(i).name # result.args.name

\* an add_metric step whose metric's name was registered before the call
DuplicateAddStep ==
    /\ result'.op = "add_metric"
    /\ DictHas(_metrics, MetricReference(result'.args.name))

\* C2: add_metric with a metric whose name is already registered raises
\* DuplicateMetricError; get_metric still returns the metric registered before
\* and the set of metric_references is the one before the call.
C2_DuplicateLeavesRegistry ==
    [][DuplicateAddStep =>
        /\ result'.raised = DuplicateMetricError
        /\ get_metric(_metrics', MetricReference(result'.args.name))
             = get_metric(_metrics, MetricReference(result'.args.name))
        /\ Range(metric_references(_metrics')) = Range(metric_references(_metrics))
      ]_vars

\* C2 witness: add_metric raised DuplicateMetricError for a metric that is not
\* the one registered under its name
C2_Witness ==
    /\ result.op = "add_metric"
    /\ result.raised = DuplicateMetricError
    /\ DictHas(_metrics, MetricReference(result.args.name))
    /\ DictGet(_metrics, MetricReference(result.args.name)) # result.args

\* an add_metric step whose metric's name was not registered before the call
FreshAddStep ==
    /\ result'.op = "add_metric"
    /\ ~DictHas(_metrics, MetricReference(result'.args.name))

\* the metric has a measure reference the semantic model lacks
HasAbsentMeasure(metric) ==
    \E k \in DOMAIN metric.input_measures :
        MeasureReference(metric.input_measures[k].name) \notin measure_references

\* C3: add_metric with a not-yet-registered metric raises
\* NonExistentMeasureError and registers nothing (get_metric for its name raises
\* MetricNotFoundError) when one of its measure references is absent from
\* measure_references, and registers the metric when all are present.
C3_MissingMeasureNotRegistered ==
    [][FreshAddStep =>
        LET metric == result'.args
            ref == MetricReference(metric.name) IN
        IF HasAbsentMeasure(metric)
        THEN /\ result'.raised = NonExistentMeasureError
             /\ get_metric(_metrics', ref).raised = MetricNotFoundError
        ELSE /\ result'.raised = NoError
             /\ get_metric(_metrics', ref).raised = NoError
             /\ get_metric(_metrics', ref).value = metric
      ]_vars

\* C3 witness: add_metric raised NonExistentMeasureError for a metric whose
\* first measure reference is present and whose second is absent
C3_Witness ==
    /\ result.op = "add_metric"
    /\ result.raised = NonExistentMeasureError
    /\ Len(result.args.input_measures) = 2
    /\ MeasureReference(result.args.input_measures[1].name) \in measure_references
    /\ ~DictHas(_metrics, MetricReference(result.args.name))

\* C4: get_metric(r) returns the metric registered under r and raises
\* MetricNotFoundError when r is not registered; get_metrics(rs) returns one
\* metric per element of rs, in the order of rs, duplicates kept, and raises
\* MetricNotFoundError, naming the first unregistered reference and returning
\* nothing, when rs holds an unregistered reference.
C4_Lookup ==
    /\ result.op = "get_metric" =>
        IF DictHas(_metrics, result.args)
        THEN /\ result.raised = NoError
             /\ \E i \in DOMAIN _metrics :
                    _metrics[i][1] = result.args /\ result.value = _metrics[i][2]
        ELSE /\ result.raised = MetricNotFoundError
             /\ result.about = result.args
    /\ result.op = "get_metrics" =>
        IF \A i \in DOMAIN result.args : DictHas(_metrics, result.args[i])
        THEN /\ result.raised = NoError
             /\ Len(result.value) = Len(result.args)
             /\ \A i \in DOMAIN result.args :
                    \E k \in DOMAIN _metrics :
                        _metrics[k][1] = result.args[i] /\ result.value[i] = _metrics[k][2]
        ELSE /\ result.raised = MetricNotFoundError
             /\ result.value = None
             /\ \E i \in DOMAIN result.args :
                    /\ result.about = result.args[i]
                    /\ ~DictHas(_metrics, result.args[i])
                    /\ \A j \in 1..(i - 1) : DictHas(_metrics, result.args[j])

\* C4 witness: get_metrics raised at its second reference, after a registered
\* first one
C4_Witness ==
    /\ result.op = "get_metrics"
    /\ result.raised = MetricNotFoundError
    /\ Len(result.args) = 2
    /\ DictHas(_metrics, result.args[1])

(***************************************************************************)
(* The expander: contains_cumulative_or_time_offset_metric.                *)
(***************************************************************************)
\* the metric is cumulative, or derived with an input that has an offset
CumulativeOrOffsetInput(metric) ==
    \/ metric.type = "CUMULATIVE"
    \/ /\ metric.type = "DERIVED"
       /\ \E k \in DOMAIN metric.input_metrics :
            \/ metric.input_metrics[k].offset_window # None
            \/ metric.input_metrics[k].offset_to_grain # None

RECURSIVE ExpandedIn(_, _)
\* refs and every reference reached from it by following input metrics, n
\* rounds deep
ExpandedIn(refs, n) ==
    IF n = 0
    THEN refs
    ELSE ExpandedIn(
            refs \cup UNION {
                {[kind |-> "metric", element_name |-> _metrics[i][2].input_metrics[k].name] :
                    k \in DOMAIN _metrics[i][2].input_metrics} :
                i \in {j \in DOMAIN _metrics : _metrics[j][1] \in refs}},
            n - 1)

\* the requested metrics and every metric reached by following derived-metric
\* inputs
Expanded(refs) == ExpandedIn(refs, Cardinality(MetricNames))

\* some registered metric of refs is cumulative or has an offset input
SomeCumulativeOrOffset(refs) ==
    \E i \in DOMAIN _metrics :
        _metrics[i][1] \in refs /\ CumulativeOrOffsetInput(_metrics[i][2])

ContainsReturned ==
    /\ result.op = "contains_cumulative_or_time_offset_metric"
    /\ result.raised = NoError

\* C5, as claimed: contains_cumulative_or_time_offset_metric is true iff a
\* requested metric, or a metric reached from one by recursively following
\* derived-metric inputs, is cumulative or is derived with an offset input.
C5_ExpandedRecursively ==
    ContainsReturned =>
        (result.value <=> SomeCumulativeOrOffset(Expanded(Range(result.args))))

\* C5, amended: contains_cumulative_or_time_offset_metric is true iff one of
\* the requested metrics is itself cumulative, or is itself derived with an
\* input of its own that has an offset; input metrics are not looked up.
C5_RequestedOnly ==
    ContainsReturned =>
        (result.value <=> SomeCumulativeOrOffset(Range(result.args)))

\* C5 witness: the call returned false for a derived metric without offsets
\* from which a cumulative metric or an offset input is reached
C5_Witness ==
    /\ ContainsReturned
    /\ ~result.value
    /\ SomeCumulativeOrOffset(Expanded(Range(result.args)))

(***************************************************************************)
(* The expander: metric_input_specs_for_metric.                            *)
(***************************************************************************)
\* the AND of the filters of fs that are set, in the order of fs
AndOf(fs) == SelectSeq(fs, LAMBDA f : f # None)

InputSpecsReturned ==
    /\ result.op = "metric_input_specs_for_metric"
    /\ result.raised = NoError

\* the metric the last call was about
Subject == DictGet(_metrics, result.args)

\* the registered metric that input i of the subject names
Original(i) == DictGet(_metrics, [kind |-> "metric",
                                  element_name |-> Subject.input_metrics[i].name])

\* C6, as claimed: the constraint of every input spec is (the derived metric's
\* own filter) AND (the filter written on the input) AND (the filter of the
\* original input metric), in this order.
C6_DerivedFilterFirst ==
    InputSpecsReturned =>
        /\ Len(result.value) = Len(Subject.input_metrics)
        /\ \A i \in DOMAIN result.value :
            result.value[i].constraint =
                AndOf(<<Subject.filter, Subject.input_metrics[i].filter, Original(i).filter>>)

\* C6, amended: the constraint of every input spec is (the filter written on
\* the input) AND (the filter of the original input metric), in this order;
\* the derived metric's own filter is not part of it.
C6_InputThenOriginal ==
    InputSpecsReturned =>
        /\ Len(result.value) = Len(Subject.input_metrics)
        /\ \A i \in DOMAIN result.value :
            result.value[i].constraint =
                AndOf(<<Subject.input_metrics[i].filter, Original(i).filter>>)

\* C6 witness: the specs of a derived metric with a filter of its own were
\* returned, one of them for a filtered input of a filtered metric
C6_Witness ==
    /\ InputSpecsReturned
    /\ Subject.filter # None
    /\ \E i \in DOMAIN result.value :
        /\ Subject.input_metrics[i].filter # None
        /\ Original(i).filter # None

\* C7: the constraint of an input spec is input_filter.combine(original_filter),
\* the input's filter first, when the input and the original metric both have
\* a filter; it is the one filter when only one has; it is None when neither has.
C7_CombineCases ==
    InputSpecsReturned =>
        \A i \in DOMAIN result.value :
            LET input_filter == Subject.input_metrics[i].filter
                original_filter == Original(i).filter
                constraint == result.value[i].constraint IN
            /\ (input_filter # None /\ original_filter # None) =>
                    /\ Len(constraint) = 2
                    /\ constraint[1] = input_filter
                    /\ constraint[2] = original_filter
            /\ (input_filter # None /\ original_filter = None) =>
                    (Len(constraint) = 1 /\ constraint[1] = input_filter)
            /\ (input_filter = None /\ original_filter # None) =>
                    (Len(constraint) = 1 /\ constraint[1] = original_filter)
            /\ (input_filter = None /\ original_filter = None) =>
                    Len(constraint) = 0

\* C7 witness: of two specs returned, one has both filters and the other none
C7_Witness ==
    /\ InputSpecsReturned
    /\ Len(result.value) = 2
    /\ Len(result.value[1].constraint) = 2
    /\ Len(result.value[2].constraint) = 0

\* C8: metric_input_specs_for_metric returns one MetricSpec per input metric,
\* in the order of the inputs, each with the input's name, alias, offset_window
\* and offset_to_grain; inputs of the same metric are not merged.
C8_OneSpecPerInput ==
    InputSpecsReturned =>
        /\ Len(result.value) = Len(Subject.input_metrics)
        /\ \A i \in DOMAIN result.value :
            /\ result.value[i].element_name = Subject.input_metrics[i].name
            /\ result.value[i].alias = Subject.input_metrics[i].alias
            /\ result.value[i].offset_window = Subject.input_metrics[i].offset_window
            /\ result.value[i].offset_to_grain = Subject.input_metrics[i].offset_to_grain

\* C8 witness: two specs of the same input metric were returned, which differ
\* in alias and in both offsets
C8_Witness ==
    /\ InputSpecsReturned
    /\ Len(result.value) = 2
    /\ result.value[1].element_name = result.value[2].element_name
    /\ result.value[1].alias # result.value[2].alias
    /\ result.value[1].offset_window # result.value[2].offset_window
    /\ result.value[1].offset_to_grain # result.value[2].offset_to_grain

(***************************************************************************)
(* The expander: measures_for_metric.                                      *)
(***************************************************************************)
MeasuresReturned ==
    /\ result.op = "measures_for_metric"
    /\ result.raised = NoError

\* C9, as claimed: for a SIMPLE or RATIO metric the constraint of every
\* input-measure spec is the filter of the metric itself.
C9_MetricFilter ==
    (MeasuresReturned /\ Subject.type \in {"SIMPLE", "RATIO"}) =>
        \A i \in DOMAIN result.value :
            result.value[i].constraint = AndOf(<<Subject.filter>>)

\* C9, amended: for a SIMPLE or RATIO metric the constraint of every
\* input-measure spec is the filter of its own input measure (None when the
\* input measure has no filter); the filter of the metric is not part of it.
C9_InputMeasureFilter ==
    (MeasuresReturned /\ Subject.type \in {"SIMPLE", "RATIO"}) =>
        /\ Len(result.value) = Len(Subject.input_measures)
        /\ \A i \in DOMAIN result.value :
            result.value[i].constraint = AndOf(<<Subject.input_measures[i].filter>>)

\* C9 witness: the specs of a filtered RATIO metric were returned, its
\* numerator filtered and its denominator not
C9_Witness ==
    /\ MeasuresReturned
    /\ Subject.type = "RATIO"
    /\ Subject.filter # None
    /\ Subject.input_measures[1].filter # None
    /\ Subject.input_measures[2].filter = None

\* C10, as claimed: for a SIMPLE metric measures_for_metric yields one spec,
\* whose alias is the metric's name.
C10_AliasIsMetricName ==
    (MeasuresReturned /\ Subject.type = "SIMPLE") =>
        /\ Len(result.value) = 1
        /\ result.value[1].alias = Subject.name

\* C10, amended: for a SIMPLE metric measures_for_metric yields one spec,
\* whose alias is the alias the input measure declares, None when it declares
\* none.
C10_AliasIsInputAlias ==
    (MeasuresReturned /\ Subject.type = "SIMPLE") =>
        /\ Len(result.value) = 1
        /\ result.value[1].alias = Subject.input_measures[1].alias

\* C10 witness: the spec of a SIMPLE metric whose input measure declares no
\* alias was returned
C10_Witness ==
    /\ MeasuresReturned
    /\ Subject.type = "SIMPLE"
    /\ Subject.input_measures[1].alias = None

(***************************************************************************)
(* The linkable specs of metrics: element_specs_for_metrics.               *)
(***************************************************************************)
ElementSpecsReturned ==
    /\ phase = "ready"
    /\ result.op = "element_specs_for_metrics"
    /\ result.raised = NoError

\* the tuple the resolver returns to the call
Resolved(refs) ==
    get_linkable_elements_for_metrics(_metrics, refs, result.args.with_any_property,
                                      result.args.without_any_property)

\* the key of the spec at place i of a sequence
KeyAt(specs, i) == KeyRank(qualified_name(specs[i]))

SortedByQualifiedName(specs) ==
    \A i, j \in DOMAIN specs : i < j => KeyAt(specs, i) <= KeyAt(specs, j)

\* specs holds every member of the tuple once and nothing else
EachOnce(specs, tuple) ==
    /\ Range(specs) = Range(tuple)
    /\ Len(specs) = Cardinality(Range(tuple))

\* the same metric references in every order
Reordered(refs) == {[i \in DOMAIN refs |-> refs[f[i]]] : f \in Permutations(DOMAIN refs)}

\* C11: the returned sequence is sorted in non-decreasing order of the
\* qualified names, holds every spec of the resolver's result once, and is
\* the sequence returned for the same metric references in any other order.
C11_SortedOnceAnyOrder ==
    ElementSpecsReturned =>
        /\ SortedByQualifiedName(result.value)
        /\ EachOnce(result.value, Resolved(result.args.metric_references))
        /\ \A refs \in Reordered(result.args.metric_references) :
               element_specs_for_metrics(_metrics, refs, result.args.with_any_property,
                                         result.args.without_any_property) = result.value

\* a call with two different metrics to which the resolver returns a tuple
\* that depends on their order and in which two specs share a qualified name
C11_Witness ==
    /\ ElementSpecsReturned
    /\ Len(result.args.metric_references) = 2
    /\ Resolved(result.args.metric_references) # result.value
    /\ Resolved(result.args.metric_references)
           # Resolved(Reverse(result.args.metric_references))
    /\ \E i, j \in DOMAIN result.value :
           i < j /\ KeyAt(result.value, i) = KeyAt(result.value, j)

\* the set of specs returned for the metric references refs and the call's
\* own filters
SpecsReturnedFor(refs) ==
    Range(element_specs_for_metrics(_metrics, refs, result.args.with_any_property,
                                    result.args.without_any_property))

\* C12: the specs returned for a non-empty sequence of metrics are exactly
\* those returned, under the same filters, for each of its metrics alone,
\* and asking about one more metric returns no spec that was not returned
\* before.
C12_Intersection ==
    ElementSpecsReturned =>
        LET refs == result.args.metric_references IN
        /\ \A s \in UNION {SpecsReturnedFor(<<refs[i]>>) : i \in DOMAIN refs} :
               s \in Range(result.value) <=>
                   \A i \in DOMAIN refs : s \in SpecsReturnedFor(<<refs[i]>>)
        /\ Range(result.value)
               \subseteq UNION {SpecsReturnedFor(<<refs[i]>>) : i \in DOMAIN refs}
        /\ \A extra \in LinkableMetricRefs :
               SpecsReturnedFor(Append(refs, extra)) \subseteq Range(result.value)

\* a call with two metrics that returns some specs, fewer than either metric
\* alone has
C12_Witness ==
    /\ ElementSpecsReturned
    /\ Len(result.args.metric_references) = 2
    /\ result.value # <<>>
    /\ \A i \in 1..2 :
           Range(result.value) # SpecsReturnedFor(<<result.args.metric_references[i]>>)

(***************************************************************************)
(* Derived metrics that reference themselves.                              *)
(***************************************************************************)
\* the names of the input metrics of the metrics named in names
InputNames(metrics, names) ==
    UNION {{metrics[i].input_metrics[k].name : k \in DOMAIN metrics[i].input_metrics} :
             i \in {i \in DOMAIN metrics : metrics[i].name \in names}}

RECURSIVE ReachedFrom(_, _, _)
\* the names reached from names through at most n further steps of input
\* metrics
ReachedFrom(metrics, names, n) ==
    IF n = 0 THEN names
    ELSE names \cup ReachedFrom(metrics, InputNames(metrics, names), n - 1)

\* some metric of the sequence references itself through input metrics
Cyclic(metrics) ==
    \E i \in DOMAIN metrics :
        metrics[i].name \in
            ReachedFrom(metrics, InputNames(metrics, {metrics[i].name}), Len(metrics))

\* C13: the constructor fails with an error on a manifest in which a metric
\* references itself through derived-metric inputs, and no metric of a built
\* index references itself through the metrics registered in it.
C13_CycleRejected ==
    /\ (result.op = "__init__" /\ Cyclic(result.args)) =>
           (phase = "failed" /\ result.raised # NoError)
    /\ phase = "ready" => ~Cyclic([i \in DOMAIN _metrics |-> Registered(i)])

(***************************************************************************)
(* The plans of build_plan.                                                *)
(***************************************************************************)
BuildPlanCalled == phase = "ready" /\ result.op = "build_plan"

PlanReturned == BuildPlanCalled /\ result.raised = NoError

\* the nodes of a kind in the returned plan
NodesOfKind(kind) == SelectSeq(result.value, LAMBDA n : n.kind = kind)

RECURSIVE UpstreamOf(_, _)
\* the identifiers of the nodes upstream of the nodes ids, these included,
\* found in n steps
UpstreamOf(ids, n) ==
    IF n = 0 THEN ids
    ELSE UpstreamOf(ids \cup UNION {Range(result.value[i].parents) :
                                      i \in {i \in DOMAIN result.value :
                                               result.value[i].id \in ids}}, n - 1)

\* node a is upstream of node b: b reads what a puts out, directly or not
Upstream(a, b) == a.id # b.id /\ a.id \in UpstreamOf({b.id}, Len(result.value))

SpecsWithTwoPaths ==
    {s \in Range(result.args.linkable_specs) :
        \E m \in Range(QueryMeasures(_metrics, result.args)) :
            Len(CandidatePaths(m, s)) >= 2}

\* C15: build_plan for a query with a requested spec to which two distinct
\* join paths lead from a measure's data source raises
\* UnableToSatisfyQueryError and returns no plan.
C15_AmbiguousPathFails ==
    (BuildPlanCalled /\ SpecsWithTwoPaths # {}) =>
        result.raised = UnableToSatisfyQueryError

\* build_plan raised for views by listing__user__home_country, which the
\* resolver lists and to which a path through either user source leads
C15_Witness ==
    /\ BuildPlanCalled
    /\ result.args.metric_names = <<"views">>
    /\ DimensionSpec("home_country", <<"listing", "user">>) \in SpecsWithTwoPaths
    /\ NotLinkable(_metrics, result.args) = <<>>
    /\ result.raised = UnableToSatisfyQueryError
    /\ result.about.reason = "ambiguous join path"

\* C16: in every returned plan, every hop of every JoinToBaseNode joins to a
\* data source on which the hop's entity is PRIMARY or UNIQUE.
C16_CardinalitySafety ==
    PlanReturned =>
        \A i \in DOMAIN result.value :
            result.value[i].kind = "JoinToBaseNode" =>
                \A k \in DOMAIN result.value[i].params.links :
                    LET link == result.value[i].params.links[k] IN
                    /\ HasEntity(DataSourceNamed(link.right_source), link.entity)
                    /\ RoleOf(DataSourceNamed(link.right_source), link.entity)
                           \in {PRIMARY, UNIQUE}

\* a plan with a JoinToBaseNode of two hops, the first to a source where the
\* entity is FOREIGN on the left
C16_Witness ==
    /\ PlanReturned
    /\ \E i \in DOMAIN result.value :
           /\ result.value[i].kind = "JoinToBaseNode"
           /\ Len(result.value[i].params.links) >= 2
           /\ result.value[i].params.links[1].role = PRIMARY

RECURSIVE FillNullOccurrences(_, _, _)
\* how often a metric with fill_nulls_with: 0 occurs in the expansion of the
\* metrics names
FillNullOccurrences(d, names, depth) ==
    IF names = <<>> THEN 0
    ELSE LET metric == DictGet(d, MetricReference(Head(names))) IN
         (IF metric.type = DERIVED /\ depth > 0
          THEN FillNullOccurrences(d, [k \in DOMAIN metric.input_metrics |->
                                          metric.input_metrics[k].name], depth - 1)
          ELSE IF Head(names) \in FillNullsWithZero THEN 1 ELSE 0)
         + FillNullOccurrences(d, Tail(names), depth)

\* the time spine joins of the plan that fill nulls
FillingSpineJoins ==
    SelectSeq(NodesOfKind("JoinToTimeSpineNode"), LAMBDA n : n.params.fill = "ZERO")

Carrying(predicate) ==
    SelectSeq(NodesOfKind("WhereConstraintNode"), LAMBDA n : n.params.predicate = predicate)

\* C18: in a plan for a query by a time dimension with a where filter or a
\* time range constraint on metric_time, every null-filling
\* JoinToTimeSpineNode is upstream of a WhereConstraintNode that carries the
\* predicate.
C18_SpineJoinBeforeFilter ==
    PlanReturned =>
        \A j \in Range(FillingSpineJoins) :
            \A p \in Range(MetricTimePredicates(result.args)) :
                \E w \in Range(Carrying(p)) : Upstream(j, w)

\* a plan for bookings_fill_nulls_with_0 by metric_time under both a where
\* filter and a time range constraint on metric_time
C18_Witness ==
    /\ PlanReturned
    /\ result.args.metric_names = <<"bookings_fill_nulls_with_0">>
    /\ result.args.linkable_specs = <<MetricTime("day")>>
    /\ MetricTimePredicates(result.args) = <<"where", "time_range">>
    /\ Len(FillingSpineJoins) = 1
    /\ \E w \in Range(Carrying("time_range")) : Upstream(w, FillingSpineJoins[1])

\* the inputs with an offset_window of the derived metrics the query asks for
OffsetInputs ==
    UNION {{[metric |-> n, input |-> DictGet(_metrics, MetricReference(n)).input_metrics[k]] :
              k \in {k \in DOMAIN DictGet(_metrics, MetricReference(n)).input_metrics :
                       DictGet(_metrics, MetricReference(n)).input_metrics[k].offset_window
                           # None}} :
             n \in {n \in Range(result.args.metric_names) :
                      DictGet(_metrics, MetricReference(n)).type = DERIVED}}

\* C19: a plan for a query on a derived metric one of whose inputs has an
\* offset_window holds a JoinToTimeSpineNode with that offset upstream of the
\* derived metric's ComputeMetricsNode, whatever the grain of the query and
\* whether or not a metric fills nulls.
C19_OffsetForcesSpineJoin ==
    PlanReturned =>
        \A o \in OffsetInputs :
            \E j \in Range(NodesOfKind("JoinToTimeSpineNode")),
               c \in Range(NodesOfKind("ComputeMetricsNode")) :
                /\ j.params.offset = <<o.input.offset_window, o.input.offset_to_grain>>
                /\ c.params.metric = o.metric
                /\ Upstream(j, c)

\* a plan for the 5-day lag by month with no null-filling join
C19_Witness ==
    /\ PlanReturned
    /\ result.args.metric_names = <<"bookings_5_day_lag">>
    /\ result.args.linkable_specs = <<MetricTime("month")>>
    /\ Len(FillingSpineJoins) = 0
    /\ Len(NodesOfKind("JoinToTimeSpineNode")) = 1

\* the requested specs outside the resolver's answer for the query's metrics
Unreachable ==
    Range(result.args.linkable_specs)
    \ Range(get_linkable_elements_for_metrics(
                _metrics, [i \in DOMAIN result.args.metric_names |->
                              MetricReference(result.args.metric_names[i])],
                all_properties, {}))

\* C20: build_plan raises UnableToSatisfyQueryError and returns no plan when
\* a requested spec is outside the intersection of the linkable specs of the
\* query's metrics, and raises for no such reason when none is.
C20_ValidatedAgainstIntersection ==
    BuildPlanCalled =>
        /\ Unreachable # {} => result.raised = UnableToSatisfyQueryError
        /\ (Unreachable = {} /\ result.raised # NoError) =>
               result.about.reason # "not linkable"

\* build_plan raised for two metrics by a spec that only the first can reach
C20_Witness ==
    /\ BuildPlanCalled
    /\ Len(result.args.metric_names) = 2
    /\ result.raised = UnableToSatisfyQueryError
    /\ result.about.reason = "not linkable"
    /\ result.about.spec.element_name = "paid_at"
    /\ result.about.spec.entity_links = <<>>

(***************************************************************************)
(* DataSource: validity dimensions, partitions and lookups.                *)
(***************************************************************************)
\* the last call was the operation op of the data source
SourceCalled(op) == result.op = op

\* the positions of the dimensions with validity_params.is_start set
StartPositions ==
    {i \in DOMAIN data_source.dimensions :
        /\ Len(data_source.dimensions[i].validity_params) = 1
        /\ data_source.dimensions[i].validity_params[1].is_start}

\* the positions of the dimensions with validity_params.is_end set
EndPositions ==
    {i \in DOMAIN data_source.dimensions :
        /\ Len(data_source.dimensions[i].validity_params) = 1
        /\ data_source.dimensions[i].validity_params[1].is_end}

\* the outcome the claim gives for the candidates at positions: None for no
\* candidate, the dimension for one, a failed assertion for more
OneOrNoneOrAssertion(positions) ==
    /\ positions = {} => (result.raised = NoError /\ result.value = Nothing)
    /\ Cardinality(positions) = 1 =>
           /\ result.raised = NoError
           /\ \E i \in positions : result.value = Some(data_source.dimensions[i])
    /\ Cardinality(positions) > 1 => result.raised = AssertionError

\* C21: validity_start_dimension (validity_end_dimension) returns None when no
\* dimension is a validity start (end), that dimension when one is, and fails
\* its assertion, returning no dimension, when more than one is.
C21_ValidityDimension ==
    /\ SourceCalled("validity_start_dimension") => OneOrNoneOrAssertion(StartPositions)
    /\ SourceCalled("validity_end_dimension") => OneOrNoneOrAssertion(EndPositions)

\* validity_start_dimension on a data source with two validity start
\* dimensions failed its assertion
C21_Witness ==
    /\ SourceCalled("validity_start_dimension")
    /\ Cardinality(StartPositions) = 2
    /\ result.raised = AssertionError

\* the positions of the dimensions marked is_partition
PartitionPositions ==
    {i \in DOMAIN data_source.dimensions : data_source.dimensions[i].is_partition}

\* the k-th smallest position of positions
KthOf(positions, k) ==
    CHOOSE i \in positions : Cardinality({j \in positions : j <= i}) = k

\* C22: partition returns None when no dimension is marked is_partition, the
\* dimension when one is, and raises ValueError when more than one is;
\* partitions returns the dimensions marked is_partition in declaration order.
C22_Partition ==
    /\ SourceCalled("partition") =>
           /\ PartitionPositions = {} =>
                  (result.raised = NoError /\ result.value = Nothing)
           /\ Cardinality(PartitionPositions) = 1 =>
                  /\ result.raised = NoError
                  /\ \E i \in PartitionPositions :
                         result.value = Some(data_source.dimensions[i])
           /\ Cardinality(PartitionPositions) > 1 => result.raised = ValueError
    /\ SourceCalled("partitions") =>
           /\ result.raised = NoError
           /\ Len(result.value) = Cardinality(PartitionPositions)
           /\ \A k \in DOMAIN result.value :
                  result.value[k] = data_source.dimensions[KthOf(PartitionPositions, k)]

\* partition on a data source with two partition dimensions raised ValueError
C22_Witness ==
    /\ SourceCalled("partition")
    /\ Cardinality(PartitionPositions) = 2
    /\ result.raised = ValueError

\* the outcome the claim gives for a lookup of the reference in elements: the
\* first element with that reference, or a ValueError that names the kind,
\* the reference (named) and the data source
FirstOrNotFound(elements, reference, kind, named) ==
    LET matching == {i \in DOMAIN elements : elements[i].name = reference.element_name} IN
    IF matching # {}
    THEN /\ result.raised = NoError
         /\ result.value = elements[KthOf(matching, 1)]
    ELSE /\ result.raised = ValueError
         /\ result.about.kind = kind
         /\ result.about.named = named

\* C23: get_measure, get_dimension and get_entity return the first element in
\* declaration order whose reference equals the requested one, and otherwise
\* raise a ValueError that names the kind of element looked up and the
\* offending reference.
C23_LookupFirstOrNotFound ==
    /\ SourceCalled("get_measure") =>
           FirstOrNotFound(data_source.measures, result.args, "measure",
                           result.args.element_name)
    /\ SourceCalled("get_dimension") =>
           FirstOrNotFound(data_source.dimensions, result.args, "dimension", result.args)
    /\ SourceCalled("get_entity") =>
           FirstOrNotFound(data_source.entities, result.args, "entity", result.args)

(***************************************************************************)
(* The index under its read operations.                                    *)
(***************************************************************************)
ReadOperations ==
    {"get_metric", "get_metrics", "metric_references", "measures_for_metric",
     "metric_input_specs_for_metric", "contains_cumulative_or_time_offset_metric",
     "element_specs_for_metrics"}

\* C24: a call of a read operation, whether it returns or raises, leaves the
\* registered metrics, the measure references and the index itself as they
\* were, so the index answers later calls as it did before.
C24_ReadOnlyIndex ==
    [][result'.op \in ReadOperations =>
           /\ _metrics' = _metrics
           /\ measure_references' = measure_references
           /\ phase' = phase]_vars

\* metric_input_specs_for_metric raised MetricNotFoundError for a registered
\* metric on an index that holds the planner's metrics and more
C24_Witness ==
    /\ result.op = "metric_input_specs_for_metric"
    /\ result.raised = MetricNotFoundError
    /\ DictHas(_metrics, result.args)
    /\ Len(_metrics) > Len(PlannerManifest)

(***************************************************************************)
(* The depth of the linkable specs.                                        *)
(***************************************************************************)
\* C25: every spec element_specs_for_metrics returns has at most
\* MAX_JOIN_HOPS entity links, and company_name, three joins away from the
\* fact sources, is returned for no metric backed by one of them.
C25_AtMostMaxJoinHops ==
    ElementSpecsReturned =>
        /\ \A i \in DOMAIN result.value :
               Len(result.value[i].entity_links) <= MAX_JOIN_HOPS
        /\ (\E k \in DOMAIN result.args.metric_references :
                result.args.metric_references[k] # MetricReference("listings")) =>
               \A i \in DOMAIN result.value :
                   result.value[i].element_name # "company_name"

\* the specs returned for bookings hold the entity company, two joins away,
\* and not the dimension company_name behind it
C25_Witness ==
    /\ ElementSpecsReturned
    /\ result.args.metric_references = <<MetricReference("bookings")>>
    /\ Contains(result.value, EntitySpec("company", <<"listing", "user">>))
    /\ ~Contains(result.value, DimensionSpec("company_name", <<"listing", "user", "company">>))

(***************************************************************************)
(* Plans without a time dimension, and plans of cumulative metrics.        *)
(***************************************************************************)
\* the query asks for a metric with fill_nulls_with: 0 and for no time
\* dimension
FillNullsWithoutTime ==
    /\ BuildPlanCalled
    /\ \E i \in DOMAIN result.args.metric_names :
           result.args.metric_names[i] \in FillNullsWithZero
    /\ \A i \in DOMAIN result.args.linkable_specs :
           result.args.linkable_specs[i].kind # "time_dimension"

ChainOfKinds ==
    IF \A i \in DOMAIN result.value :
           result.value[i].parents
               = (IF i = 1 THEN <<>> ELSE <<result.value[i - 1].id>>)
    THEN [i \in DOMAIN result.value |-> result.value[i].kind]
    ELSE <<>>

\* C27: in a plan for the cumulative metric with a window, the
\* CumulativeWindowNode is upstream of the aggregation of the measure, and
\* the plan by metric_time at day is Read -> CumulativeWindowNode ->
\* AggregateMeasuresNode -> ComputeMetricsNode -> Write.
C27_CumulativeWindowBeforeAggregate ==
    (PlanReturned /\ result.args.metric_names = <<"trailing_2_months_revenue">>) =>
        /\ Len(NodesOfKind("CumulativeWindowNode")) = 1
        /\ \A a \in Range(NodesOfKind("AggregateMeasuresNode")) :
               Upstream(NodesOfKind("CumulativeWindowNode")[1], a)
        /\ result.args.linkable_specs = <<MetricTime("day")>> =>
               ChainOfKinds = <<"ReadSqlSourceNode", "CumulativeWindowNode",
                                "AggregateMeasuresNode", "ComputeMetricsNode",
                                "WriteToResultDataframeNode">>

\* the plan for trailing_2_months_revenue by metric_time at day
C27_Witness ==
    /\ PlanReturned
    /\ result.args.metric_names = <<"trailing_2_months_revenue">>
    /\ result.args.linkable_specs = <<MetricTime("day")>>
    /\ NodesOfKind("CumulativeWindowNode")[1].params.window = "2_months"

(***************************************************************************)
(* The scan of contains_cumulative_or_time_offset_metric and the order of  *)
(* its references.                                                         *)
(***************************************************************************)
ContainsCalled == result.op = "contains_cumulative_or_time_offset_metric"

\* the positions of refs that hold an unregistered reference
UnregisteredPositions(refs) ==
    {i \in DOMAIN refs : \A j \in DOMAIN _metrics : _metrics[j][1] # refs[i]}

\* the positions of refs that hold a registered metric that is cumulative or
\* derived with an offset input
OffsetPositions(refs) ==
    {i \in DOMAIN refs :
        \E j \in DOMAIN _metrics :
            _metrics[j][1] = refs[i] /\ CumulativeOrOffsetInput(_metrics[j][2])}

\* every position of before is smaller than every position of after
AllBefore(before, after) == \A i \in before : \A j \in after : i < j

\* the smallest position of a non-empty set
FirstPosition(positions) == CHOOSE i \in positions : \A j \in positions : i <= j

\* C28: contains_cumulative_or_time_offset_metric(refs) returns true when a
\* cumulative metric or a derived metric with an offset input stands in refs
\* before every unregistered reference, raises MetricNotFoundError for the
\* first unregistered reference when that one comes first, and returns false
\* when neither is in refs; with every reference registered the outcome is
\* that of the set of refs.
C28_FirstInOrderDecides ==
    ContainsCalled =>
        LET hits == OffsetPositions(result.args)
            missing == UnregisteredPositions(result.args)
        IN /\ (hits # {} /\ AllBefore({FirstPosition(hits)}, missing)) =>
                  (result.raised = NoError /\ result.value = TRUE)
           /\ (missing # {} /\ AllBefore({FirstPosition(missing)}, hits)) =>
                  /\ result.raised = MetricNotFoundError
                  /\ result.about = result.args[FirstPosition(missing)]
           /\ (hits = {} /\ missing = {}) =>
                  (result.raised = NoError /\ result.value = FALSE)
           /\ missing = {} =>
                  /\ result.raised = NoError
                  /\ result.value = SomeCumulativeOrOffset(Range(result.args))

\* true was returned for a cumulative or offset metric followed by an
\* unregistered reference, and the same two references the other way round
\* raise
C28_Witness ==
    /\ ContainsCalled
    /\ Len(result.args) = 2
    /\ OffsetPositions(result.args) = {1}
    /\ UnregisteredPositions(result.args) = {2}
    /\ result.raised = NoError
    /\ result.value = TRUE
    /\ contains_cumulative_or_time_offset_metric(
           _metrics, <<result.args[2], result.args[1]>>).raised = MetricNotFoundError

(***************************************************************************)
(* The constructor: the first failing metric of the manifest ends it.      *)
(***************************************************************************)
\* the metric at position i of the manifest has the name of an earlier one
DuplicateAt(manifest, i) == \E j \in 1..(i - 1) : manifest[j].name = manifest[i].name

\* the metric at position i of the manifest references a measure the
\* semantic model lacks
MissingMeasureAt(manifest, i) ==
    \E k \in DOMAIN measure_references_of(manifest[i]) :
        measure_references_of(manifest[i])[k] \notin measure_references

\* the positions of the manifest whose metric add_metric refuses
FailingPositions(manifest) ==
    {i \in DOMAIN manifest : DuplicateAt(manifest, i) \/ MissingMeasureAt(manifest, i)}

\* C29: the constructor registers the manifest's metrics in order up to the
\* first one that is a duplicate or references an unregistered measure, and
\* raises the error of that one, whatever follows it, leaving no instance;
\* a metric that is both raises DuplicateMetricError.
C29_FirstFailingMetricEndsBuild ==
    result.op = "__init__" =>
        LET manifest == result.args
            failing == FailingPositions(manifest) IN
        IF failing = {}
        THEN /\ phase = "ready"
             /\ result.raised = NoError
             /\ DictKeys(_metrics) = [i \in DOMAIN manifest |-> MetricReference(manifest[i].name)]
        ELSE LET first == FirstPosition(failing) IN
             /\ phase = "failed"
             /\ DictKeys(_metrics) = [i \in 1..(first - 1) |-> MetricReference(manifest[i].name)]
             /\ IF DuplicateAt(manifest, first)
                THEN /\ result.raised = DuplicateMetricError
                     /\ result.about = manifest[first].name
                ELSE /\ result.raised = NonExistentMeasureError
                     /\ result.about[1] = manifest[first].name

\* the constructor raised DuplicateMetricError for a second metric that is a
\* duplicate and references an unregistered measure
C29_Witness ==
    /\ result.op = "__init__"
    /\ Len(result.args) = 2
    /\ DuplicateAt(result.args, 2)
    /\ MissingMeasureAt(result.args, 2)
    /\ result.raised = DuplicateMetricError
    /\ phase = "failed"

(***************************************************************************)
(* Derived metrics whose inputs are not registered.                        *)
(***************************************************************************)
\* the positions of the subject's inputs that name an unregistered metric
UnregisteredInputs ==
    {i \in DOMAIN Subject.input_metrics :
        \A j \in DOMAIN _metrics :
            _metrics[j][1] # [kind |-> "metric",
                              element_name |-> Subject.input_metrics[i].name]}

\* C30: a derived metric is registered whether or not its input metrics are,
\* before or after them; metric_input_specs_for_metric on a registered metric
\* raises MetricNotFoundError exactly when one of its inputs is unregistered,
\* and otherwise returns one spec per input.
C30_InputsLookedUpAtCall ==
    /\ result.op = "__init__" =>
           /\ phase = "ready"
           /\ DictKeys(_metrics)
                  = [i \in DOMAIN result.args |-> MetricReference(result.args[i].name)]
    /\ (result.op = "metric_input_specs_for_metric" /\ DictHas(_metrics, result.args)) =>
           IF UnregisteredInputs # {}
           THEN /\ result.raised = MetricNotFoundError
                /\ \E i \in UnregisteredInputs :
                       result.about = [kind |-> "metric",
                                       element_name |-> Subject.input_metrics[i].name]
           ELSE /\ result.raised = NoError
                /\ Len(result.value) = Len(Subject.input_metrics)
                /\ \A i \in DOMAIN result.value :
                       result.value[i].element_name = Subject.input_metrics[i].name

\* the call raised for a derived metric, registered before its inputs, whose
\* first input is registered and whose second is not
C30_Witness ==
    /\ result.op = "metric_input_specs_for_metric"
    /\ DictHas(_metrics, result.args)
    /\ _metrics[1][1] = result.args
    /\ UnregisteredInputs = {2}
    /\ result.raised = MetricNotFoundError

====
